---- MODULE Spec2Model ----
(***************************************************************************)
(* Model of the scoring core of src/api.py (Dive Bar Detective API): the   *)
(* sub-score calculators, the Dive-Score classifier, the cohort percentile *)
(* normalizer, the blended-score composer and the request handlers that    *)
(* sequence them.                                                          *)
(*                                                                         *)
(* Units.  Python floats are modelled by scaled integers:                  *)
(*   - a 0..10 score field (quality_0_10, ...) is held in tenths (95 is    *)
(*     9.5), a dive_score in tenths of a point (850 is 85.0);              *)
(*   - an aggregate signal in [0,1] is held in tenths (8 is 0.8), a        *)
(*     sentiment in [-1,1] in tenths, pct_dive_positive in tenths;         *)
(*   - a rating is held in thousandths (4500 is 4.5);                      *)
(*   - an ML residual is held in hundredths (35 is 0.35) and the tanh      *)
(*     scale of the Underrated fallback in quarters of a hundredth (140 is *)
(*     0.35), the grain of the 75th-percentile interpolation.              *)
(* round(x, 1) is modelled on the exact rational value of x.               *)
(***************************************************************************)
EXTENDS Integers, Sequences, FiniteSets, TLC

VARIABLES
    before,     \* normalizer harness: the list handed to normalize_to_percentile
    after,      \* normalizer harness: the same list after the calls made so far
    normed,     \* normalizer harness: the fields normalized so far
    target,     \* normalizer harness: <<target_min, target_max>> of the calls
    calc_in,    \* calculator harness: the place dict handed to the call
    calc_out,   \* calculator harness: the place dict after the call
    calc_call,  \* calculator harness: the function called ("none" before)
    calc_scale, \* calculator harness: the underrated_scale argument
    supabase,   \* api.py:31-33: TRUE when the module-level client was created
    locations,  \* the rows of the storage table "locations", in storage order
    reachable,  \* TRUE when the storage answers the queries sent to it
    ties,       \* per place_id, the side its doubles fall on at a decimal tie
    request,    \* the last request handled (endpoint and query parameters)
    response,   \* its response: status, body (list of place dicts), total count
    threads,    \* per worker thread, the request it runs and its local variables
    review_rows \* the rows of the storage table "reviews" of the place asked for

normVars == <<before, after, normed, target>>

calcVars == <<calc_in, calc_out, calc_call, calc_scale>>

apiVars ==
    <<supabase, locations, reachable, ties, request, response, threads,
      review_rows>>

vars == <<normVars, calcVars, apiVars>>

\* Python's None: a missing / null field.
None == -1000000

\* A value that is present but not a number (a string such as "n/a"):
\* float() and int() raise on it, and so does an ordering comparison with
\* a number.
Bad == -2000000

----------------------------------------------------------------------------
(* Numeric helpers                                                         *)

Abs(x) == IF x < 0 THEN -x ELSE x

Min2(a, b) == IF a < b THEN a ELSE b

Max2(a, b) == IF a > b THEN a ELSE b

\* api.py:99  _clamp
_clamp(x, lo, hi) == Max2(lo, Min2(hi, x))

\* floor of num/den for den > 0 (\div floors in TLA+)
FloorDiv(num, den) == num \div den

\* round(): num/den is the exact value in units of the last kept digit;
\* the closest integer, a tie going to the even neighbour.
RoundHalfEven(num, den) ==
    LET fl  == FloorDiv(num, den)
        rem == num - fl * den
    IN  IF 2 * rem > den THEN fl + 1
        ELSE IF 2 * rem < den THEN fl
        ELSE IF fl % 2 = 0 THEN fl ELSE fl + 1

\* TRUE when num/den lies exactly half way between two integers.
IsTie(num, den) == 2 * (num - FloorDiv(num, den) * den) = den

\* round(x, 1) of a double x computed by a chain of double products and
\* sums whose exact decimal value is num/den tenths.  Off a tie it is the
\* nearest tenth.  On a decimal tie x.x5 the double carries the
\* representation error of the arithmetic behind it and lies on either side
\* of the tie; `up` is the side it lies on.
Round1Floor(num, den, up) == FloorDiv(num, den)

Round1(num, den, up) ==
    IF IsTie(num, den)
    THEN FloorDiv(num, den) + (IF up THEN 1 ELSE 0)
    ELSE RoundHalfEven(num, den)

----------------------------------------------------------------------------
(* Cohort percentile normalizer: api.py:132-149                            *)

\* target_min / target_max defaults of normalize_to_percentile, in tenths.
TargetMinDefault == 20
TargetMaxDefault == 95

\* api.py:138-139: indices whose value of `field` is numeric and not NaN.
NumericIdx(places, field) == {i \in DOMAIN places : places[i][field] # None}

\* api.py:144: position (from 0) of index i after the stable ascending sort
\* of the (index, value) pairs: pairs with a smaller value come first, and
\* among equal values the pair with the smaller index.
SortedPosUnstable(places, field, i) ==
    Cardinality({j \in NumericIdx(places, field) :
        \/ places[j][field] < places[i][field]
        \/ places[j][field] = places[i][field] /\ j > i})

SortedPos(places, field, i) ==
    Cardinality({j \in NumericIdx(places, field) :
        \/ places[j][field] < places[i][field]
        \/ places[j][field] = places[i][field] /\ j < i})

\* The double evaluation of api.py:147-149 with the default targets lands
\* just off the decimal tie x.x5 at these <<n, rank>> and round() then
\* returns the odd neighbour (2.15 is held as 2.1499..., 2.45 as 2.4500..1).
\* Exhaustive over 2 <= n <= 100 for the targets used here.
OddTieRanks ==
    {<<51, 1>>, <<51, 3>>, <<51, 9>>, <<51, 23>>, <<51, 27>>, <<51, 29>>,
     <<51, 31>>, <<51, 37>>, <<51, 39>>, <<51, 41>>, <<51, 47>>, <<51, 49>>}

\* api.py:147-149: percentile = rank/(n-1);
\* new_score = target_min + percentile*(target_max-target_min); round(.., 1)
NewScoreNoRound(rank, n, tmin, tmax) ==
    tmin + FloorDiv(rank * (tmax - tmin), n - 1)

NewScoreCoarse(rank, n, tmin, tmax) ==
    10 * RoundHalfEven(tmin * (n - 1) + rank * (tmax - tmin), 10 * (n - 1))

NewScoreReversed(rank, n, tmin, tmax) ==
    RoundHalfEven(tmax * (n - 1) - rank * (tmax - tmin), n - 1)

NewScore(rank, n, tmin, tmax) ==
    LET num == tmin * (n - 1) + rank * (tmax - tmin)
        he  == RoundHalfEven(num, n - 1)
    IN  IF /\ tmin = TargetMinDefault /\ tmax = TargetMaxDefault
           /\ <<n, rank>> \in OddTieRanks
        THEN (IF he % 2 = 0 THEN 2 * FloorDiv(num, n - 1) + 1 - he ELSE he)
        ELSE he

\* api.py:132-149  normalize_to_percentile(places, field, target_min, target_max)
\* The in-place update of the list is returned as the new list.
normalize_NoGuard(places, field, tmin, tmax) ==
    LET n == Cardinality(NumericIdx(places, field))
    IN  [i \in DOMAIN places |->
            IF i \in NumericIdx(places, field)
            THEN [places[i] EXCEPT ![field] =
                     IF n = 1 THEN tmin
                     ELSE NewScore(SortedPos(places, field, i), n, tmin, tmax)]
            ELSE places[i]]

\* A normalizer that ranks the places without a numeric value at the bottom.
normalize_FillsMissing(places, field, tmin, tmax) ==
    LET n == Cardinality(NumericIdx(places, field))
    IN  IF n < 2 THEN places
        ELSE [i \in DOMAIN places |->
                [places[i] EXCEPT ![field] =
                    IF i \in NumericIdx(places, field)
                    THEN NewScore(SortedPos(places, field, i), n, tmin, tmax)
                    ELSE tmin]]

normalize_to_percentile(places, field, tmin, tmax) ==
    LET idx == NumericIdx(places, field)
        n   == Cardinality(idx)
    IN  IF n < 2 THEN places
        ELSE [i \in DOMAIN places |->
                IF i \in idx
                THEN [places[i] EXCEPT ![field] =
                         NewScore(SortedPos(places, field, i), n, tmin, tmax)]
                ELSE places[i]]

----------------------------------------------------------------------------
(* Signal accessors: api.py:102-112                                        *)

\* api.py:102  _safe_float(x, default): float(None) raises, so a missing
\* value gives the default, and so does a non-numeric one.
_safe_float(x, default) == IF x \in {None, Bad} THEN default ELSE x

\* api.py:108  _safe_int(x, default)
_safe_int(x, default) == IF x \in {None, Bad} THEN default ELSE x

\* `place.get(k) or 0` (api.py:326-327): None and 0 both give 0.
OrZero(x) == IF x = None THEN 0 ELSE x

----------------------------------------------------------------------------
(* Sub-score calculators: api.py:151-282.  A base score is held in         *)
(* thousandths of a point (9800 is 9.8) until the final round(.., 1).      *)

\* api.py:185-191 / 226-232: sparse-data guardrail on a base score.
GuardrailNoTightCap(place, base) ==
    LET gr == _safe_int(place.user_ratings_total, 0)
        rc == _safe_int(place.review_count, 0)
    IN  IF gr < 100 \/ rc < 25 THEN Min2(base, 9800) ELSE base

GuardrailAnd(place, base) ==
    LET gr == _safe_int(place.user_ratings_total, 0)
        rc == _safe_int(place.review_count, 0)
        b1 == IF gr < 100 /\ rc < 25 THEN Min2(base, 9800) ELSE base
    IN  IF gr < 50 /\ rc < 15 THEN Min2(b1, 9400) ELSE b1

Guardrail(place, base) ==
    LET gr == _safe_int(place.user_ratings_total, 0)
        rc == _safe_int(place.review_count, 0)
        b1 == IF gr < 100 \/ rc < 25 THEN Min2(base, 9800) ELSE base
    IN  IF gr < 50 \/ rc < 15 THEN Min2(b1, 9400) ELSE b1

\* api.py:176: 10 / (1 + exp(-16 * (p - 0.28))) for p = 0.0, 0.1, .. 1.0,
\* to the nearest thousandth of a point.
Logistic ==
    <<112, 532, 2176, 5793, 8721, 9713, 9941, 9988, 9998, 10000, 10000>>

\* api.py:163-176: the base of character_0_10 before the vibe nudge.
CharacterBase(place) ==
    LET auth    == _safe_float(place.avg_authenticity, None)
        classic == _safe_float(place.avg_classic_institution, None)
        unpr    == _safe_float(place.avg_unpretentious, None)
        divey   == _safe_float(place.avg_divey_score, None)
        memo    == _safe_float(place.avg_memorable, None)
    IN  IF auth # None /\ classic # None /\ unpr # None
        THEN 10 * (30 * auth + 25 * classic + 20 * unpr
                   + 15 * (IF divey # None THEN divey ELSE 0)
                   + 10 * (IF memo # None THEN memo ELSE 5))
        ELSE Logistic[_clamp(_safe_float(place.pct_dive_positive, 0), 0, 10) + 1]

\* api.py:178-183: vibe nudge.
VibeNudge(place) ==
    IF place.vibe_tag = "Beloved_Dive" THEN 300
    ELSE IF place.vibe_tag = "Polarizing_Dive" THEN 200
    ELSE 0

\* api.py:151-193  character_0_10
character_0_10(place, up) ==
    Round1(_clamp(Guardrail(place, CharacterBase(place) + VibeNudge(place)),
                  0, 10000),
           100, up)

\* api.py:196-198  diveiness_0_10
diveiness_0_10(place, up) == character_0_10(place, up)

\* api.py:207-224: the base of quality_0_10.
QualityBaseNoFallback(place) ==
    10 * (35 * _safe_float(place.avg_food_drink_quality, 0)
          + 30 * _safe_float(place.avg_would_recommend, 0)
          + 15 * _safe_float(place.avg_service_quality, 5)
          + 10 * _safe_float(place.avg_value_score, 5)
          + 10 * _safe_float(place.avg_memorable, 5))

QualityBase(place) ==
    LET food      == _safe_float(place.avg_food_drink_quality, None)
        service   == _safe_float(place.avg_service_quality, None)
        value     == _safe_float(place.avg_value_score, None)
        recommend == _safe_float(place.avg_would_recommend, None)
        memo      == _safe_float(place.avg_memorable, None)
    IN  IF food # None /\ recommend # None
        THEN 10 * (35 * food + 30 * recommend
                   + 15 * (IF service # None THEN service ELSE 5)
                   + 10 * (IF value # None THEN value ELSE 5)
                   + 10 * (IF memo # None THEN memo ELSE 5))
        ELSE (_safe_float(place.avg_openai_sentiment, 0) + 10) * 500

\* api.py:201-234  quality_0_10
quality_0_10(place, up) ==
    Round1(_clamp(Guardrail(place, QualityBase(place)), 0, 10000), 100, up)

\* api.py:276: 1 / (1 + log10(max(review_count, 1))) in millionths, for the
\* review counts used here.
Discovery(rc) ==
    CASE rc <= 1 -> 1000000
      [] rc = 5 -> 588592
      [] rc = 10 -> 500000
      [] rc = 20 -> 434588
      [] rc = 30 -> 403694

\* The scale constants of the code, in quarters of a hundredth.
ScaleFloor == 40
ScaleDefault == 140
ScaleFallback == 80

\* api.py:258: 5 * tanh(r / scale) to the nearest thousandth of a point,
\* for the residuals r (hundredths) and scales (quarter hundredths) used
\* here; tanh is odd.
Tanh5(r, scale) ==
    LET a == Abs(r)
        t == CASE a = 0 -> 0
               [] scale = 40 /\ a = 10 -> 3808
               [] scale = 40 /\ a = 20 -> 4820
               [] scale = 40 /\ a = 30 -> 4975
               [] scale = 40 /\ a = 35 -> 4991
               [] scale = 40 /\ a = 40 -> 4997
               [] scale = 80 /\ a = 10 -> 2311
               [] scale = 80 /\ a = 20 -> 3808
               [] scale = 80 /\ a = 30 -> 4526
               [] scale = 80 /\ a = 35 -> 4707
               [] scale = 80 /\ a = 40 -> 4820
               [] scale = 140 /\ a = 10 -> 1391
               [] scale = 140 /\ a = 20 -> 2582
               [] scale = 140 /\ a = 30 -> 3474
               [] scale = 140 /\ a = 35 -> 3808
               [] scale = 140 /\ a = 40 -> 4077
    IN  IF r < 0 THEN -t ELSE t

\* api.py:250-253: the residual read by the Underrated fallback
\* (residual_deep first, then residual).
UnderratedResidual(place) ==
    IF place.ml_metadata.residual_deep # None
    THEN place.ml_metadata.residual_deep
    ELSE place.ml_metadata.residual

\* api.py:261-282: the preferred path, as the exact fraction of
\* raw*10 = 2*(rec_gap+1) + 1.5*(sent_gap+1) + 3*discovery, in units of
\* 1/300000 of a tenth.
UnderratedPrimary(place, recommend, sentiment, up) ==
    LET rating       == _safe_float(place.rating, 4000)
        review_count == _safe_int(place.review_count, 1)
        nr           == _clamp(rating, 3500, 5000) - 3500
        num          == 10500000 + 600000 * recommend
                        + 225000 * (sentiment + 10)
                        - 7000 * nr
                        + 9 * Discovery(Max2(review_count, 1))
    IN  Round1(_clamp(num, 0, 30000000), 300000, up)

\* api.py:236-282  underrated_0_10(place, scale=...)
underrated_ZeroWhenNoResidual(place, scale, up) ==
    LET recommend == _safe_float(place.avg_would_recommend, None)
        sentiment == _safe_float(place.avg_openai_sentiment, None)
        r         == UnderratedResidual(place)
    IN  IF recommend = None \/ sentiment = None
        THEN IF r = None THEN 0
             ELSE Round1(_clamp(5000 + Tanh5(_safe_float(r, 0),
                                             Max2(ScaleFloor, scale)),
                                0, 10000),
                         100, up)
        ELSE UnderratedPrimary(place, recommend, sentiment, up)

underrated_NoNeutral(place, scale, up) ==
    LET recommend == _safe_float(place.avg_would_recommend, None)
        sentiment == _safe_float(place.avg_openai_sentiment, None)
        r         == _safe_float(UnderratedResidual(place), 0)
    IN  IF recommend = None \/ sentiment = None
        THEN Round1(_clamp(5000 + Tanh5(r, Max2(ScaleFloor, scale)), 0, 10000),
                    100, up)
        ELSE UnderratedPrimary(place, recommend, sentiment, up)

underrated_0_10(place, scale, up) ==
    LET recommend == _safe_float(place.avg_would_recommend, None)
        sentiment == _safe_float(place.avg_openai_sentiment, None)
        r         == UnderratedResidual(place)
    IN  IF recommend = None \/ sentiment = None
        THEN IF r = None THEN 50
             ELSE Round1(_clamp(5000 + Tanh5(_safe_float(r, 0),
                                             Max2(ScaleFloor, scale)),
                                0, 10000),
                         100, up)
        ELSE UnderratedPrimary(place, recommend, sentiment, up)

----------------------------------------------------------------------------
(* Blended-score composer: api.py:284-319                                  *)

\* The three weighted components, in the order of api.py:299-311.
BlendWeights ==
    <<[f |-> "quality_0_10", w |-> 40],
      [f |-> "character_0_10", w |-> 35],
      [f |-> "underrated_0_10", w |-> 25]>>

\* api.py:299-311: the components whose score is numeric on the place.
BlendPresent(place) == {k \in 1..3 : place[BlendWeights[k].f] # None}

\* api.py:317: total_weight (in hundredths).
BlendTotalWeight(place) ==
    LET P == BlendPresent(place)
    IN  (IF 1 \in P THEN 40 ELSE 0) + (IF 2 \in P THEN 35 ELSE 0)
        + (IF 3 \in P THEN 25 ELSE 0)

\* api.py:318: weighted_sum (weights in hundredths, scores in tenths).
BlendWeightedSum(place) ==
    LET P == BlendPresent(place)
    IN  (IF 1 \in P THEN 40 * place.quality_0_10 ELSE 0)
        + (IF 2 \in P THEN 35 * place.character_0_10 ELSE 0)
        + (IF 3 \in P THEN 25 * place.underrated_0_10 ELSE 0)

\* api.py:284-319  blended_0_10
blended_NoRenormalize(place, up) ==
    IF BlendPresent(place) = {} THEN None
    ELSE Round1(BlendWeightedSum(place), 100, up)

blended_DefaultWhenEmpty(place, up) ==
    IF BlendPresent(place) = {} THEN 50
    ELSE Round1(BlendWeightedSum(place), BlendTotalWeight(place), up)

blended_0_10(place, up) ==
    IF BlendPresent(place) = {} THEN None
    ELSE Round1(BlendWeightedSum(place), BlendTotalWeight(place), up)

----------------------------------------------------------------------------
(* Legacy Dive-Score classifier: api.py:321-402                            *)

\* api.py:334-340: the residual read by the classifier (residual first,
\* then residual_deep, else 0).
DiveResidual(place) ==
    _safe_float(IF place.ml_metadata.residual # None
                THEN place.ml_metadata.residual
                ELSE place.ml_metadata.residual_deep, 0)

\* api.py:343-349, in thousandths of a point (rating in thousandths).
RatingScore(rating) ==
    Min2(40000,
         IF rating >= 4000 THEN 30000 + (rating - 4000) * 10
         ELSE IF rating >= 3500 THEN 20000 + (rating - 3500) * 20
         ELSE 10000)

\* The review-count table with 600 in the 20-point band.
ReviewScoreHalfOpen(reviews) ==
    IF reviews < 20 THEN 10
    ELSE IF reviews < 600 THEN 30
    ELSE IF reviews <= 2000 THEN 20
    ELSE 10

\* api.py:352-359
ReviewScore(reviews) ==
    IF reviews < 20 THEN 10
    ELSE IF 20 <= reviews /\ reviews <= 600 THEN 30
    ELSE IF 600 < reviews /\ reviews <= 2000 THEN 20
    ELSE 10

\* api.py:362-366
PriceScore(price) ==
    IF price = 1 THEN 30
    ELSE IF price = 2 THEN 20
    ELSE IF price = 3 THEN 5
    ELSE IF price = 4 THEN 0
    ELSE 15

\* api.py:370-373 (residual in hundredths)
MlBonus(residual) ==
    IF residual > 30 THEN 10
    ELSE IF residual > 10 THEN 5
    ELSE IF residual < -30 THEN -5
    ELSE 0

\* api.py:375-376: total_score, in thousandths of a point.
TotalScoreNoClamp(place) ==
    RatingScore(OrZero(place.rating))
    + 1000 * ReviewScore(OrZero(place.user_ratings_total))
    + 1000 * PriceScore(place.price_level)
    + 1000 * MlBonus(DiveResidual(place))

TotalScore(place) ==
    _clamp(RatingScore(OrZero(place.rating))
           + 1000 * ReviewScore(OrZero(place.user_ratings_total))
           + 1000 * PriceScore(place.price_level)
           + 1000 * MlBonus(DiveResidual(place)),
           0, 100000)

\* api.py:380-387
GradeExclusive(total_score) ==
    IF total_score > 85000 THEN "A"
    ELSE IF total_score > 70000 THEN "B"
    ELSE IF total_score > 50000 THEN "C"
    ELSE "D"

Grade(total_score) ==
    IF total_score >= 85000 THEN "A"
    ELSE IF total_score >= 70000 THEN "B"
    ELSE IF total_score >= 50000 THEN "C"
    ELSE "D"

\* api.py:390-397
Label(total_score) ==
    IF total_score >= 85000 THEN "Certified Gem"
    ELSE IF total_score >= 70000 THEN "Solid Spot"
    ELSE IF total_score >= 50000 THEN "Decent"
    ELSE "Avoid"

\* api.py:343-354: `rating >= 4.0` and `reviews < 20` raise TypeError when
\* the value is not a number.
calculate_dive_score_raises(place) ==
    \/ OrZero(place.rating) = Bad
    \/ OrZero(place.user_ratings_total) = Bad

\* api.py:321-402  calculate_dive_score: dive_score is round(total_score, 1),
\* the grade and the label are taken from the unrounded total_score.
calculate_dive_score(place, up) ==
    [place EXCEPT !.dive_score = Round1(TotalScore(place), 100, up),
                  !.dive_grade = Grade(TotalScore(place)),
                  !.gem_label = Label(TotalScore(place))]

----------------------------------------------------------------------------
(* enrich_place: api.py:404-414.  `up` is the side on which the doubles of  *)
(* this place lie at a decimal tie (see Round1).                           *)

enrich_place(place, underrated_scale, up) ==
    LET p1 == calculate_dive_score(place, up)
        p2 == [p1 EXCEPT !.character_0_10 = character_0_10(p1, up)]
        p3 == [p2 EXCEPT !.diveiness_0_10 = p2.character_0_10]
        p4 == [p3 EXCEPT !.quality_0_10 = quality_0_10(p3, up)]
        p5 == [p4 EXCEPT !.underrated_0_10 =
                            underrated_0_10(p4, underrated_scale, up)]
    IN  [p5 EXCEPT !.blended_0_10 = blended_0_10(p5, up)]

----------------------------------------------------------------------------
(* Ranking orchestrator: api.py:432-668                                    *)

\* Position (from 0) of index i in the stable ascending sort of a list of
\* numbers (list.sort(), api.py:480).
AscPos(vals, i) ==
    Cardinality({j \in DOMAIN vals :
        vals[j] < vals[i] \/ (vals[j] = vals[i] /\ j < i)})

SortedAsc(vals) ==
    [k \in DOMAIN vals |-> vals[CHOOSE i \in DOMAIN vals : AscPos(vals, i) = k - 1]]

\* api.py:114-129  _percentile_sorted: values in hundredths, result in
\* quarters of a hundredth (exact for pct a multiple of 25).
_percentile_sorted(sorted_vals, pct) ==
    LET n    == Len(sorted_vals)
        p    == _clamp(pct, 0, 100)
        lo   == FloorDiv(p * (n - 1), 100)
        wnum == p * (n - 1) - 100 * lo
    IN  IF n = 0 THEN 0
        ELSE IF n = 1 THEN 4 * sorted_vals[1]
        ELSE IF wnum = 0 THEN 4 * sorted_vals[lo + 1]
        ELSE FloorDiv(sorted_vals[lo + 1] * (100 - wnum)
                      + sorted_vals[lo + 2] * wnum, 25)

\* api.py:471-479: |residual| of the places that carry one
\* (residual_deep first, then residual), in list order.
RECURSIVE AbsResiduals(_)
AbsResiduals(results) ==
    IF results = <<>> THEN <<>>
    ELSE LET md == Head(results).ml_metadata
             r  == IF md.residual_deep # None THEN md.residual_deep
                   ELSE md.residual
         IN  (IF r = None THEN <<>> ELSE <<Abs(_safe_float(r, 0))>>)
             \o AbsResiduals(Tail(results))

\* api.py:480-484: the auto-calibrated Underrated scale.
UnderratedScaleFixed(results) == ScaleFallback

UnderratedScale(results) ==
    LET abs_residuals == SortedAsc(AbsResiduals(results))
    IN  Max2(ScaleFloor,
             IF Len(abs_residuals) >= 10
             THEN _percentile_sorted(abs_residuals, 75)
             ELSE ScaleFallback)

\* api.py:487 / 553 / 622: [enrich_place(place, ...) for place in results]
\* ups[place_id] is the tie side of the doubles of that place (see Round1).
EnrichAll(results, scale, ups) ==
    [i \in DOMAIN results |->
        enrich_place(results[i], scale, ups[results[i].place_id])]

\* api.py:487: the list comprehension raises when one enrich_place call does.
EnrichRaises(results) ==
    \E i \in DOMAIN results : calculate_dive_score_raises(results[i])

\* api.py:490-492: the three normalization calls, default targets.
NormalizeLenses(places) ==
    normalize_to_percentile(
        normalize_to_percentile(
            normalize_to_percentile(places, "quality_0_10",
                                    TargetMinDefault, TargetMaxDefault),
            "character_0_10", TargetMinDefault, TargetMaxDefault),
        "underrated_0_10", TargetMinDefault, TargetMaxDefault)

\* api.py:495-496: recalculate blended after normalization.
ReblendSkipped(places, ups) == places

Reblend(places, ups) ==
    [i \in DOMAIN places |->
        [places[i] EXCEPT !.blended_0_10 =
            blended_0_10(places[i], ups[places[i].place_id])]]

\* api.py:487-496 (also 553-562, 622-631): enrich, normalize, re-blend.
ScoreCohort(results, scale, ups) ==
    Reblend(NormalizeLenses(EnrichAll(results, scale, ups)), ups)

\* api.py:499-503 / 634-638: minimum Google review count, in memory.
FilterMinReviews(places, min_reviews) ==
    IF min_reviews > 0
    THEN SelectSeq(places,
                   LAMBDA p : OrZero(p.user_ratings_total) >= min_reviews)
    ELSE places

\* api.py:506-509  KIND_TYPE_MAP
KindNames == {"bar", "restaurant"}

KIND_TYPE_MAP(kind) ==
    IF kind = "bar" THEN {"bar", "night_club"}
    ELSE {"restaurant", "cafe", "meal_takeaway", "meal_delivery"}

\* api.py:511-518  has_kind
has_kind(p, kind) ==
    IF kind \notin KindNames THEN FALSE
    ELSE p.types \cap KIND_TYPE_MAP(kind) # {}

\* api.py:521: k.lower().strip() on the spellings used here.
LowerStrip(k) ==
    IF k = "BAR" THEN "bar"
    ELSE IF k = " restaurant" THEN "restaurant"
    ELSE k

\* A kind filter that keeps the requested kinds it does not know.
FilterKindsKeepUnknown(places, kinds, kinds_mode) ==
    LET normalized == {LowerStrip(kinds[i]) : i \in DOMAIN kinds}
    IN  IF kinds = <<>> THEN places
        ELSE IF kinds_mode = "all"
        THEN SelectSeq(places, LAMBDA p : \A k \in normalized : has_kind(p, k))
        ELSE SelectSeq(places, LAMBDA p : \E k \in normalized : has_kind(p, k))

\* api.py:520-527: the kind filter.
FilterKindsAnyOnly(places, kinds, kinds_mode) ==
    LET normalized ==
            {LowerStrip(kinds[i]) : i \in DOMAIN kinds} \cap KindNames
    IN  IF kinds = <<>> \/ normalized = {} THEN places
        ELSE SelectSeq(places, LAMBDA p : \E k \in normalized : has_kind(p, k))

FilterKinds(places, kinds, kinds_mode) ==
    LET normalized ==
            {LowerStrip(kinds[i]) : i \in DOMAIN kinds} \cap KindNames
    IN  IF kinds = <<>> \/ normalized = {} THEN places
        ELSE IF kinds_mode = "all"
        THEN SelectSeq(places, LAMBDA p : \A k \in normalized : has_kind(p, k))
        ELSE SelectSeq(places, LAMBDA p : \E k \in normalized : has_kind(p, k))

\* api.py:531 / 659: list.sort(key=lambda x: x.get(field) or 0,
\* reverse=True): descending, equal keys keep their list order.
DescPos(places, field, i) ==
    Cardinality({j \in DOMAIN places :
        \/ OrZero(places[j][field]) > OrZero(places[i][field])
        \/ OrZero(places[j][field]) = OrZero(places[i][field]) /\ j < i})

SortKeepsOrder(places, field) == places

SortDesc(places, field) ==
    [k \in DOMAIN places |->
        places[CHOOSE i \in DOMAIN places : DescPos(places, field, i) = k - 1]]

\* api.py:535 / 663: enriched_results[:limit]
Truncate(places, limit) == SubSeq(places, 1, Min2(limit, Len(places)))

\* An HTTPException / error response.
Error(code) == [status |-> code, body |-> <<>>, total |-> None]

\* api.py:460-468 / 617-619: rows with rating >= min_rating (a null rating
\* does not satisfy the comparison).
FetchMinRating(rows, min_rating) ==
    SelectSeq(rows, LAMBDA p : p.rating # None /\ p.rating >= min_rating)

\* get_locations with the post-filters applied before the scoring.
get_locations_FilterFirst(req, storage_ok, ups) ==
    IF ~supabase \/ ~storage_ok THEN Error(500)
    ELSE IF EnrichRaises(FetchMinRating(locations, req.min_rating))
    THEN Error(500)
    ELSE LET results  == FetchMinRating(locations, req.min_rating)
             kept     == FilterKinds(
                             FilterMinReviews(results, req.min_reviews),
                             req.kinds, req.kinds_mode)
             enriched == ScoreCohort(kept, UnderratedScale(results), ups)
             sorted   == SortDesc(enriched, req.sort_by)
         IN  [status |-> 200,
              body   |-> Truncate(sorted, req.limit),
              total  |-> Len(sorted)]

\* api.py:432-538  get_locations.  Every exception raised inside the try
\* block, the HTTPException(503) of get_supabase included, is caught at
\* api.py:537 and turned into status 500.
get_locations_result(req, storage_ok, ups) ==
    IF ~supabase \/ ~storage_ok THEN Error(500)
    ELSE IF EnrichRaises(FetchMinRating(locations, req.min_rating))
    THEN Error(500)
    ELSE LET results  == FetchMinRating(locations, req.min_rating)
             enriched == ScoreCohort(results, UnderratedScale(results), ups)
             kept     == FilterKinds(
                             FilterMinReviews(enriched, req.min_reviews),
                             req.kinds, req.kinds_mode)
             sorted   == SortDesc(kept, req.sort_by)
         IN  [status |-> 200,
              body   |-> Truncate(sorted, req.limit),
              total  |-> Len(sorted)]

\* api.py:541-566  get_vibes: the storage applies the vibe_tag filter and
\* the limit (api.py:549-551) before anything is scored.
get_vibes_result(req, storage_ok, ups) ==
    IF ~supabase \/ ~storage_ok THEN Error(500)
    ELSE LET rows == IF req.vibe_tag # "none"
                     THEN SelectSeq(locations,
                                    LAMBDA p : p.vibe_tag = req.vibe_tag)
                     ELSE locations
             data == Truncate(rows, req.limit)
         IN  IF EnrichRaises(data) THEN Error(500)
             ELSE [status |-> 200,
                   body   |-> ScoreCohort(data, ScaleDefault, ups),
                   total  |-> None]

\* api.py:591-601  SIGNAL_COLUMNS
SignalNames ==
    {"food_drink_quality", "service_quality", "value_score", "divey_score",
     "classic_institution", "unpretentious", "authenticity",
     "would_recommend", "memorable"}

SIGNAL_COLUMNS(signal) ==
    CASE signal = "food_drink_quality" -> "avg_food_drink_quality"
      [] signal = "service_quality" -> "avg_service_quality"
      [] signal = "value_score" -> "avg_value_score"
      [] signal = "divey_score" -> "avg_divey_score"
      [] signal = "classic_institution" -> "avg_classic_institution"
      [] signal = "unpretentious" -> "avg_unpretentious"
      [] signal = "authenticity" -> "avg_authenticity"
      [] signal = "would_recommend" -> "avg_would_recommend"
      [] signal = "memorable" -> "avg_memorable"

\* A validation that also drops the weights that are not positive.
ValidWeightsPositive(weight_dict) ==
    {signal \in DOMAIN weight_dict \cap SignalNames :
        weight_dict[signal] # None /\ weight_dict[signal] > 0}

\* api.py:603-610: the known signals whose weight converts to a float
\* (weights in tenths; None is a weight float() rejects).
ValidWeights(weight_dict) ==
    {signal \in DOMAIN weight_dict \cap SignalNames :
        weight_dict[signal] # None}

\* api.py:650: total_weight over the contributing signals S.
RECURSIVE SumWeights(_, _)
SumWeights(S, weight_dict) ==
    IF S = {} THEN 0
    ELSE LET sg == CHOOSE x \in S : TRUE
         IN  weight_dict[sg] + SumWeights(S \ {sg}, weight_dict)

\* api.py:649: weighted_sum over the contributing signals S.
RECURSIVE SumWeighted(_, _, _)
SumWeighted(S, weight_dict, place) ==
    IF S = {} THEN 0
    ELSE LET sg == CHOOSE x \in S : TRUE
         IN  place[SIGNAL_COLUMNS(sg)] * weight_dict[sg]
             + SumWeighted(S \ {sg}, weight_dict, place)

\* api.py:641-656: custom_score of one place.
CustomScoreUnscaled(place, weight_dict, up) ==
    LET used == {sg \in ValidWeights(weight_dict) :
                    /\ _safe_float(place[SIGNAL_COLUMNS(sg)], None) # None
                    /\ weight_dict[sg] > 0}
        total_weight == SumWeights(used, weight_dict)
        weighted_sum == SumWeighted(used, weight_dict, place)
    IN  IF total_weight > 0
        THEN Round1(weighted_sum, total_weight, up)
        ELSE 50

CustomScore(place, weight_dict, up) ==
    LET used == {sg \in ValidWeights(weight_dict) :
                    /\ _safe_float(place[SIGNAL_COLUMNS(sg)], None) # None
                    /\ weight_dict[sg] > 0}
        total_weight == SumWeights(used, weight_dict)
        weighted_sum == SumWeighted(used, weight_dict, place)
    IN  IF total_weight > 0
        THEN Round1(10 * weighted_sum, total_weight, up)
        ELSE 50

\* api.py:569-668  get_locations_custom.  req.weights is the parsed
\* payload: kind "invalid" (json.loads raises JSONDecodeError), "other"
\* (valid JSON that is not an object: .items() raises outside any try
\* block, status 500) or "object" with its mapping.
get_locations_custom_result(req, storage_ok, ups) ==
    IF req.weights.kind = "invalid" THEN Error(400)
    ELSE IF req.weights.kind = "other" THEN Error(500)
    ELSE IF ValidWeights(req.weights.map) = {} THEN Error(400)
    ELSE IF ~supabase THEN Error(503)
    ELSE IF ~storage_ok THEN Error(500)
    ELSE IF EnrichRaises(FetchMinRating(locations, req.min_rating))
    THEN Error(500)
    ELSE LET results  == FetchMinRating(locations, req.min_rating)
             enriched == ScoreCohort(results, ScaleDefault, ups)
             kept     == FilterMinReviews(enriched, req.min_reviews)
             scored   == [i \in DOMAIN kept |->
                            [kept[i] EXCEPT !.custom_score =
                                CustomScore(kept[i], req.weights.map,
                                            ups[kept[i].place_id])]]
             sorted   == SortDesc(scored, "custom_score")
         IN  [status |-> 200,
              body   |-> Truncate(sorted, req.limit),
              total  |-> Len(sorted)]

----------------------------------------------------------------------------
(* Place records                                                           *)

Signals ==
    {"avg_food_drink_quality", "avg_service_quality", "avg_value_score",
     "avg_divey_score", "avg_classic_institution", "avg_unpretentious",
     "avg_authenticity", "avg_would_recommend", "avg_memorable"}

\* A row of the locations table with every optional column null and no
\* computed field yet (api.py:41-88).
BasePlace ==
    [place_id |-> 1, rating |-> None, user_ratings_total |-> None,
     price_level |-> None, types |-> {},
     ml_metadata |-> [residual |-> None, residual_deep |-> None],
     avg_openai_sentiment |-> None, pct_dive_positive |-> None,
     vibe_tag |-> "none", review_count |-> None,
     avg_food_drink_quality |-> None, avg_service_quality |-> None,
     avg_value_score |-> None, avg_divey_score |-> None,
     avg_classic_institution |-> None, avg_unpretentious |-> None,
     avg_authenticity |-> None, avg_would_recommend |-> None,
     avg_memorable |-> None,
     dive_score |-> None, dive_grade |-> "none", gem_label |-> "none",
     diveiness_0_10 |-> None, character_0_10 |-> None,
     underrated_0_10 |-> None, quality_0_10 |-> None,
     blended_0_10 |-> None, custom_score |-> None]

----------------------------------------------------------------------------
(* Calculator harness: enrich_place and blended_0_10 applied to one place   *)
(* dict drawn from bounded sets.  Each family varies the fields one        *)
(* calculator reads and leaves the others null.                            *)

\* <<user_ratings_total, review_count>>
Counts == {<<None, None>>, <<10, 5>>, <<60, 20>>, <<120, 30>>, <<120, 5>>}

QualityPlaces ==
    {[BasePlace EXCEPT !.avg_food_drink_quality = food,
                       !.avg_would_recommend = rec,
                       !.avg_service_quality = svc,
                       !.avg_value_score = val,
                       !.avg_memorable = memo,
                       !.avg_openai_sentiment = sent,
                       !.user_ratings_total = cnt[1],
                       !.review_count = cnt[2]] :
        food \in {None, 0, 5, 10}, rec \in {None, 0, 10}, svc \in {None, 10},
        val \in {None, 10}, memo \in {None, 10}, sent \in {None, -10, 6, 10},
        cnt \in Counts}

CharacterPlaces ==
    {[BasePlace EXCEPT !.avg_authenticity = auth,
                       !.avg_classic_institution = classic,
                       !.avg_unpretentious = unpr,
                       !.avg_divey_score = divey,
                       !.avg_memorable = memo,
                       !.pct_dive_positive = pct,
                       !.vibe_tag = vibe,
                       !.user_ratings_total = cnt[1],
                       !.review_count = cnt[2]] :
        auth \in {None, 0, 10}, classic \in {None, 5, 10}, unpr \in {None, 10},
        divey \in {None, 10}, memo \in {None, 10}, pct \in {None, 0, 3, 10},
        vibe \in {"none", "Beloved_Dive", "Polarizing_Dive"}, cnt \in Counts}

DivePlaces ==
    {[BasePlace EXCEPT !.rating = rating,
                       !.user_ratings_total = reviews,
                       !.price_level = price,
                       !.ml_metadata = [residual |-> res, residual_deep |-> deep]] :
        rating \in {None, 3000, 3500, 3748, 4000, 4496, 4500, 5000},
        reviews \in {None, 10, 20, 600, 601, 2000, 2001},
        price \in {None, 0, 1, 2, 3, 4},
        res \in {None, -40, -30, 10, 20, 30, 40}, deep \in {None, 40}}

UnderratedPlaces ==
    {[BasePlace EXCEPT !.avg_would_recommend = rec,
                       !.avg_openai_sentiment = sent,
                       !.rating = rating,
                       !.review_count = rc,
                       !.ml_metadata = [residual |-> res, residual_deep |-> deep]] :
        rec \in {None, 0, 10}, sent \in {None, -10, 10},
        rating \in {None, 3000, 4496, 5000}, rc \in {None, 5, 10},
        res \in {None, 0, -40, 35}, deep \in {None, 0, 20}}

\* Place dicts that already carry sub-scores, for blended_0_10.
BlendPlaces ==
    {[BasePlace EXCEPT !.quality_0_10 = q, !.character_0_10 = c,
                       !.underrated_0_10 = u] :
        q \in {None, 0, 20, 58, 95, 100}, c \in {None, 0, 20, 58, 95, 100},
        u \in {None, 0, 20, 58, 95, 100}}

CalcPlaces ==
    QualityPlaces \cup CharacterPlaces \cup DivePlaces \cup UnderratedPlaces
        \cup BlendPlaces

\* underrated_scale values handed to enrich_place: below the floor, the
\* floor, the fallback of get_locations and the default.
CalcScales == {20, ScaleFloor, ScaleFallback, ScaleDefault}

NoRequest == [endpoint |-> "none"]

ApiIdle ==
    /\ supabase = FALSE
    /\ locations = <<>>
    /\ reachable = FALSE
    /\ ties = <<>>
    /\ request = NoRequest
    /\ response = Error(None)
    /\ threads = <<>>
    /\ review_rows = <<>>

NormIdle ==
    /\ before = <<>>
    /\ after = <<>>
    /\ normed = {}
    /\ target = <<TargetMinDefault, TargetMaxDefault>>

CalcIdle ==
    /\ calc_in = BasePlace
    /\ calc_out = BasePlace
    /\ calc_call = "none"
    /\ calc_scale = ScaleDefault

CalcInit ==
    /\ calc_in \in CalcPlaces
    /\ calc_out = calc_in
    /\ calc_call = "none"
    /\ calc_scale = ScaleDefault
    /\ NormIdle
    /\ ApiIdle

\* enrich_place(calc_in, underrated_scale=scale)
CalcEnrich(scale, up) ==
    /\ calc_call = "none"
    /\ calc_out' = enrich_place(calc_in, scale, up)
    /\ calc_call' = "enrich_place"
    /\ calc_scale' = scale
    /\ UNCHANGED <<calc_in, normVars, apiVars>>

\* place["blended_0_10"] = blended_0_10(place), as in api.py:496
CalcBlend(up) ==
    /\ calc_call = "none"
    /\ calc_out' = [calc_in EXCEPT !.blended_0_10 = blended_0_10(calc_in, up)]
    /\ calc_call' = "blended_0_10"
    /\ UNCHANGED <<calc_in, calc_scale, normVars, apiVars>>

CalcNext ==
    \/ \E scale \in CalcScales, up \in BOOLEAN : CalcEnrich(scale, up)
    \/ \E up \in BOOLEAN : CalcBlend(up)

SpecCalc == CalcInit /\ [][CalcNext]_vars

----------------------------------------------------------------------------
(* Normalizer harness: normalize_to_percentile applied to bounded lists,   *)
(* one field after the other as in api.py:490-492.                         *)

MaxCohort == 3
MaxBigCohort == 78

ScoreFields == {"quality_0_10", "character_0_10", "underrated_0_10"}

\* A list entry carrying the three score fields only.
ScoreRow(q, c, u) ==
    [quality_0_10 |-> q, character_0_10 |-> c, underrated_0_10 |-> u]

SmallRows ==
    {ScoreRow(q, c, 60) : q \in {None, 50, 70, 90}, c \in {None, 50}}

SmallCohorts ==
    UNION {[1..n -> SmallRows] : n \in 0..MaxCohort}

\* Long lists: n places whose quality values are all different, in
\* ascending or descending list order.
BigCohort(n, asc) ==
    [i \in 1..n |-> ScoreRow(IF asc THEN i - 1 ELSE n - i, 50, None)]

BigCohorts ==
    {BigCohort(n, asc) : n \in (MaxCohort + 1)..MaxBigCohort, asc \in BOOLEAN}

Targets == {<<TargetMinDefault, TargetMaxDefault>>, <<0, 100>>}

NormInit ==
    /\ before \in SmallCohorts \cup BigCohorts
    /\ after = before
    /\ normed = {}
    /\ target \in Targets
    /\ CalcIdle
    /\ ApiIdle

\* One call normalize_to_percentile(after, f, target_min, target_max).
Normalize(f) ==
    /\ f \notin normed
    /\ after' = normalize_to_percentile(after, f, target[1], target[2])
    /\ normed' = normed \cup {f}
    /\ UNCHANGED <<before, target, calcVars, apiVars>>

NormNext == \E f \in ScoreFields : Normalize(f)

SpecNorm == NormInit /\ [][NormNext]_vars

\* The values of field f along a list.
Column(places, f) == [i \in DOMAIN places |-> places[i][f]]

----------------------------------------------------------------------------
(* The service: a locations table fixed for the run, and one action per    *)
(* request handler.  Handlers keep no state between requests: each action  *)
(* records the request and its response.                                   *)

MaxPlaces == 4

\* Rows the table is filled from (place_id is set to the row position).
GemRow ==
    [BasePlace EXCEPT !.rating = 5000, !.user_ratings_total = 120,
        !.review_count = 30, !.price_level = 1, !.types = {"bar"},
        !.ml_metadata = [residual |-> None, residual_deep |-> 40],
        !.avg_openai_sentiment = 10, !.pct_dive_positive = 10,
        !.vibe_tag = "Beloved_Dive",
        !.avg_food_drink_quality = 10, !.avg_service_quality = 10,
        !.avg_value_score = 10, !.avg_divey_score = 10,
        !.avg_classic_institution = 10, !.avg_unpretentious = 10,
        !.avg_authenticity = 10, !.avg_would_recommend = 10,
        !.avg_memorable = 10]

\* user_ratings_total = 10 and review_count = 5, every signal at 1.0.
SparseRow ==
    [GemRow EXCEPT !.rating = 4500, !.user_ratings_total = 10,
        !.review_count = 5, !.price_level = 2,
        !.types = {"restaurant", "bar"}, !.vibe_tag = "none",
        !.ml_metadata = [residual |-> None, residual_deep |-> None]]

\* Only a rating: every signal missing.
EmptyRow == [BasePlace EXCEPT !.rating = 4000]

\* Legacy aggregates only, the older residual field, some signals.
LegacyRow ==
    [BasePlace EXCEPT !.rating = 3800, !.user_ratings_total = 700,
        !.review_count = 20, !.types = {"cafe"},
        !.ml_metadata = [residual |-> 20, residual_deep |-> None],
        !.avg_openai_sentiment = 6, !.pct_dive_positive = 3,
        !.vibe_tag = "Polarizing_Dive",
        !.avg_food_drink_quality = 8, !.avg_divey_score = 5]

\* Below the default rating floor, every signal at 0.
LowRow ==
    [BasePlace EXCEPT !.rating = 3000, !.user_ratings_total = 2500,
        !.review_count = 30, !.price_level = 4, !.types = {"night_club"},
        !.ml_metadata = [residual |-> -40, residual_deep |-> None],
        !.avg_openai_sentiment = -10, !.pct_dive_positive = 0,
        !.avg_food_drink_quality = 0, !.avg_service_quality = 0,
        !.avg_value_score = 0, !.avg_divey_score = 0,
        !.avg_classic_institution = 0, !.avg_unpretentious = 0,
        !.avg_authenticity = 0, !.avg_would_recommend = 0,
        !.avg_memorable = 0]

\* No rating at all.
UnratedRow ==
    [BasePlace EXCEPT !.user_ratings_total = 60, !.review_count = 20,
        !.types = {"meal_takeaway"}, !.avg_would_recommend = 5,
        !.avg_openai_sentiment = 0]

\* Defects the scorers absorb: non-numeric signals, price and residual.
GarbledRow ==
    [BasePlace EXCEPT !.rating = 4200, !.user_ratings_total = 300,
        !.review_count = 20, !.price_level = Bad, !.types = {"bar"},
        !.ml_metadata = [residual |-> Bad, residual_deep |-> None],
        !.avg_openai_sentiment = Bad, !.pct_dive_positive = 5,
        !.avg_food_drink_quality = Bad, !.avg_would_recommend = 10,
        !.avg_authenticity = Bad, !.avg_memorable = 5]

\* A review count that is not a number.
BadCountRow ==
    [BasePlace EXCEPT !.rating = 3200, !.user_ratings_total = Bad,
        !.review_count = 20, !.price_level = 2, !.types = {"restaurant"},
        !.avg_food_drink_quality = 8, !.avg_would_recommend = 8]

RowCycle ==
    <<GemRow, SparseRow, EmptyRow, LegacyRow, LowRow, UnratedRow,
      GarbledRow, BadCountRow>>

\* The n rows of the cycle from position k on.
Window(k, n) ==
    [i \in 1..n |->
        [RowCycle[((k + i - 2) % Len(RowCycle)) + 1] EXCEPT !.place_id = i]]

\* A row scored on the preferred Underrated path (raw score 8.1).
RecommendedRow ==
    [BasePlace EXCEPT !.rating = 3800, !.review_count = 5,
        !.avg_would_recommend = 10, !.avg_openai_sentiment = 10]

\* A row scored on the Underrated fallback path, from its residual fields.
ResidualRow(rating, residual, residual_deep) ==
    [BasePlace EXCEPT !.rating = rating,
        !.ml_metadata = [residual |-> residual,
                         residual_deep |-> residual_deep]]

WithIds(rows) == [i \in DOMAIN rows |-> [rows[i] EXCEPT !.place_id = i]]

\* Ten residual-bearing rows, one of them below the default rating floor:
\* nine candidates by default, ten with min_rating = 3.0, whose |residual|
\* have the 75th percentile 0.35.
CalibrationTable ==
    WithIds(<<RecommendedRow,
              ResidualRow(3200, 0, None),
              ResidualRow(4000, None, 10),
              ResidualRow(4100, -10, None),
              ResidualRow(4200, None, 20),
              ResidualRow(4300, 40, -20),
              ResidualRow(4400, None, 30),
              ResidualRow(4500, 35, None),
              ResidualRow(4600, None, -35),
              ResidualRow(4700, None, 40),
              ResidualRow(4800, -40, None)>>)

\* Ten residual-bearing candidates whose 75th percentile of |residual| is
\* 0, below the floor of the scale.
QuietTable ==
    WithIds(<<RecommendedRow,
              ResidualRow(4000, None, 0), ResidualRow(4000, 0, None),
              ResidualRow(4100, None, 0), ResidualRow(4100, 0, None),
              ResidualRow(4200, None, 0), ResidualRow(4200, 0, None),
              ResidualRow(4300, None, 0), ResidualRow(4300, 0, None),
              ResidualRow(4400, None, 10), ResidualRow(4500, -10, None)>>)

Tables ==
    {Window(k, n) : k \in 1..Len(RowCycle), n \in 0..MaxPlaces}
    \cup {CalibrationTable, QuietTable}

\* Tie sides: one per place_id.  The side is decided by the floating-point
\* arithmetic on the row, so it is the same in every request of a run.
TieSides ==
    {[i \in 1..Len(locations) |-> b] : b \in BOOLEAN}
    \cup {[i \in 1..Len(locations) |-> i % 2 = 0]}

\* api.py:435-456: the defaults of /locations
LocationsDefault ==
    [endpoint |-> "get_locations", min_rating |-> 3500, min_reviews |-> 0,
     kinds |-> <<>>, kinds_mode |-> "any", sort_by |-> "blended_0_10",
     limit |-> 120]

LocationsRequests ==
    {LocationsDefault,
     [LocationsDefault EXCEPT !.min_rating = 3000],
     [LocationsDefault EXCEPT !.min_reviews = 50],
     [LocationsDefault EXCEPT !.limit = 1],
     [LocationsDefault EXCEPT !.min_rating = 3000, !.limit = 2],
     [LocationsDefault EXCEPT !.sort_by = "user_ratings_total", !.limit = 2],
     [LocationsDefault EXCEPT !.kinds = <<"bar", "restaurant">>,
                              !.kinds_mode = "all", !.min_reviews = 5]}
    \cup {[LocationsDefault EXCEPT !.kinds = k, !.kinds_mode = m] :
            k \in {<<"BAR">>, <<"bar", "restaurant">>, <<"spa">>,
                   <<"spa", "bar">>},
            m \in {"any", "all"}}
    \cup {[LocationsDefault EXCEPT !.sort_by = f] :
            f \in {"diveiness_0_10", "rating", "user_ratings_total"}}

VibesRequests ==
    [endpoint : {"get_vibes"},
     vibe_tag : {"none", "Beloved_Dive", "Consistent_Gem"}, limit : {1, 100}]

\* weights payloads of /locations/custom
Payloads ==
    {[kind |-> "invalid", map |-> <<>>],
     [kind |-> "other", map |-> <<>>],
     [kind |-> "object", map |-> <<>>],
     [kind |-> "object", map |-> [x \in {"food_drink_quality"} |-> 10]],
     [kind |-> "object",
      map |-> [x \in {"food_drink_quality", "divey_score"} |->
                  IF x = "divey_score" THEN 2 ELSE 8]],
     [kind |-> "object", map |-> [x \in {"divey_score"} |-> -10]],
     [kind |-> "object", map |-> [x \in {"coolness"} |-> 10]],
     [kind |-> "object", map |-> [x \in {"food_drink_quality"} |-> None]],
     [kind |-> "object",
      map |-> [x \in {"would_recommend", "coolness", "memorable"} |->
                  IF x = "memorable" THEN None ELSE 5]]}

\* api.py:573-575: the defaults of /locations/custom
CustomDefault ==
    [endpoint |-> "get_locations_custom",
     weights |-> [kind |-> "object",
                  map |-> [x \in {"food_drink_quality"} |-> 10]],
     min_rating |-> 3500, min_reviews |-> 0, limit |-> 120]

CustomRequests ==
    {[CustomDefault EXCEPT !.weights = w] : w \in Payloads}
    \cup {[CustomDefault EXCEPT !.min_rating = 3000],
          [CustomDefault EXCEPT !.min_reviews = 50],
          [CustomDefault EXCEPT !.limit = 1]}

Init ==
    /\ supabase \in BOOLEAN
    /\ locations \in Tables
    /\ reachable \in BOOLEAN
    /\ ties \in TieSides
    /\ request = NoRequest
    /\ response = Error(None)
    /\ threads = <<>>
    /\ review_rows = <<>>
    /\ NormIdle
    /\ CalcIdle

\* GET /locations
GetLocations(req, storage_ok, ups) ==
    /\ request' = req
    /\ response' = get_locations_result(req, storage_ok, ups)
    /\ UNCHANGED <<supabase, locations, reachable, ties, threads, review_rows,
                   normVars, calcVars>>

\* GET /vibes
GetVibes(req, storage_ok, ups) ==
    /\ request' = req
    /\ response' = get_vibes_result(req, storage_ok, ups)
    /\ UNCHANGED <<supabase, locations, reachable, ties, threads, review_rows,
                   normVars, calcVars>>

\* GET /locations/custom
GetLocationsCustom(req, storage_ok, ups) ==
    /\ request' = req
    /\ response' = get_locations_custom_result(req, storage_ok, ups)
    /\ UNCHANGED <<supabase, locations, reachable, ties, threads, review_rows,
                   normVars, calcVars>>

Next ==
    \/ \E req \in LocationsRequests : GetLocations(req, reachable, ties)
    \/ \E req \in VibesRequests : GetVibes(req, reachable, ties)
    \/ \E req \in CustomRequests : GetLocationsCustom(req, reachable, ties)

Spec == Init /\ [][Next]_vars

----------------------------------------------------------------------------
(* Two worker threads running get_locations in parallel (the handlers are   *)
(* plain `def` functions, which the framework runs in a thread pool).  Each *)
(* thread steps through the statements of api.py:458-535 on its own local   *)
(* variables; the table and the client are shared and only read.           *)

Workers == {1, 2}

IdleThread == [pc |-> "idle", req |-> NoRequest, data |-> <<>>,
               resp |-> Error(None)]

ParallelRequests ==
    {LocationsDefault,
     [LocationsDefault EXCEPT !.min_rating = 3000],
     [LocationsDefault EXCEPT !.limit = 1],
     [LocationsDefault EXCEPT !.kinds = <<"BAR">>]}

\* A handler-local name (results, enriched_results) bound in one thread's
\* frame while every thread's same-named variable is one shared global.
StoreShared(t, pc, data) ==
    [u \in Workers |->
        IF u = t THEN [threads[u] EXCEPT !.pc = pc, !.data = data]
        ELSE [threads[u] EXCEPT !.data = data]]

\* api.py:468 / 487: `results` and `enriched_results` are local variables of
\* the running call: binding one touches the frame of thread t only.
StoreLocal(t, pc, data) ==
    [threads EXCEPT ![t] = [@ EXCEPT !.pc = pc, !.data = data]]

\* The thread ends with an error response.
Fail(t, code) ==
    [threads EXCEPT ![t] = [@ EXCEPT !.pc = "done", !.resp = Error(code)]]

ConcInit ==
    /\ supabase \in BOOLEAN
    /\ locations \in Tables
    /\ reachable \in BOOLEAN
    /\ ties \in TieSides
    /\ request = NoRequest
    /\ response = Error(None)
    /\ threads = [t \in Workers |-> IdleThread]
    /\ review_rows = <<>>
    /\ NormIdle
    /\ CalcIdle

ConcFrame ==
    UNCHANGED <<supabase, locations, reachable, ties, request, response,
                review_rows, normVars, calcVars>>

\* The framework hands a request to a free worker thread.
Receive(t, req) ==
    /\ threads[t].pc = "idle"
    /\ threads' = [threads EXCEPT ![t] = [@ EXCEPT !.pc = "received",
                                                   !.req = req]]
    /\ ConcFrame

\* api.py:459-468: get the client, run the query.
Fetch(t) ==
    /\ threads[t].pc = "received"
    /\ threads' =
         IF ~supabase \/ ~reachable THEN Fail(t, 500)
         ELSE StoreLocal(t, "fetched",
                         FetchMinRating(locations, threads[t].req.min_rating))
    /\ ConcFrame

\* api.py:470-487: calibrate the scale, enrich every place.
Enrich(t) ==
    /\ threads[t].pc = "fetched"
    /\ threads' =
         IF EnrichRaises(threads[t].data) THEN Fail(t, 500)
         ELSE StoreLocal(t, "enriched",
                         EnrichAll(threads[t].data,
                                   UnderratedScale(threads[t].data), ties))
    /\ ConcFrame

\* api.py:489-492: the three normalizations.
NormalizeAll(t) ==
    /\ threads[t].pc = "enriched"
    /\ threads' = StoreLocal(t, "normalized", NormalizeLenses(threads[t].data))
    /\ ConcFrame

\* api.py:494-496: the re-blend.
ReblendAll(t) ==
    /\ threads[t].pc = "normalized"
    /\ threads' = StoreLocal(t, "blended", Reblend(threads[t].data, ties))
    /\ ConcFrame

\* api.py:498-535: filters, sort, count, slice and return.
Respond(t) ==
    /\ threads[t].pc = "blended"
    /\ LET req    == threads[t].req
           kept   == FilterKinds(
                         FilterMinReviews(threads[t].data, req.min_reviews),
                         req.kinds, req.kinds_mode)
           sorted == SortDesc(kept, req.sort_by)
       IN  threads' = [threads EXCEPT ![t] =
               [@ EXCEPT !.pc = "done",
                         !.resp = [status |-> 200,
                                   body   |-> Truncate(sorted, req.limit),
                                   total  |-> Len(sorted)]]]
    /\ ConcFrame

ConcNext ==
    \E t \in Workers :
        \/ \E req \in ParallelRequests : Receive(t, req)
        \/ Fetch(t)
        \/ Enrich(t)
        \/ NormalizeAll(t)
        \/ ReblendAll(t)
        \/ Respond(t)

SpecConc == ConcInit /\ [][ConcNext]_vars

----------------------------------------------------------------------------
(* Key reviews: api.py:671-730.  A review row carries id, openai_sentiment  *)
(* (tenths), review_text and openai_is_dive_positive (a null flag is falsy *)
(* and held as FALSE).                                                     *)

\* api.py:691: (r.get("review_text") or "").strip() is non-empty.
HasText(r) == r.review_text \notin {"none", "", " "}

\* api.py:696-700  sent(r): float(openai_sentiment or 0.0), 0.0 on failure.
sent(r) == IF r.openai_sentiment \in {None, Bad} THEN 0 ELSE r.openai_sentiment

\* max(rows, key=sent) / min(rows, key=sent) over the indices S: the first
\* row in list order among those with the extreme key.
MaxFirst(rows, S) ==
    CHOOSE i \in S : /\ \A j \in S : sent(rows[j]) <= sent(rows[i])
                     /\ \A j \in S : j < i => sent(rows[j]) < sent(rows[i])

MinFirst(rows, S) ==
    CHOOSE i \in S : /\ \A j \in S : sent(rows[j]) >= sent(rows[i])
                     /\ \A j \in S : j < i => sent(rows[j]) > sent(rows[i])

IdsOf(rows) == {rows[i].id : i \in DOMAIN rows}

\* api.py:709-715 without the `rid not in seen` test.
PickAlways(picked, r) == picked \o <<r>>

\* api.py:709-715: one round of the loop over [most_pos, most_neg, most_dive].
Pick(picked, r) ==
    IF r.id \notin IdsOf(picked) THEN picked \o <<r>> ELSE picked

\* api.py:720: remaining.sort(key=lambda r: abs(sent(r)), reverse=True)
AbsDescPos(rows, i) ==
    Cardinality({j \in DOMAIN rows :
        \/ Abs(sent(rows[j])) > Abs(sent(rows[i]))
        \/ Abs(sent(rows[j])) = Abs(sent(rows[i])) /\ j < i})

SortByAbsSent(rows) ==
    [k \in DOMAIN rows |->
        rows[CHOOSE i \in DOMAIN rows : AbsDescPos(rows, i) = k - 1]]

\* api.py:686-728: the reviews picked from the rows of the place.
PickReviews(all_rows, limit) ==
    LET rows == SelectSeq(all_rows, HasText)
        dive_candidates ==
            {i \in DOMAIN rows : rows[i].openai_is_dive_positive = TRUE}
        most_pos == rows[MaxFirst(rows, DOMAIN rows)]
        most_neg == rows[MinFirst(rows, DOMAIN rows)]
        p2 == Pick(Pick(<<>>, most_pos), most_neg)
        picked == IF dive_candidates = {} THEN p2
                  ELSE Pick(p2, rows[MaxFirst(rows, dive_candidates)])
        remaining ==
            SortByAbsSent(SelectSeq(rows,
                                    LAMBDA r : r.id \notin IdsOf(picked)))
        filled == IF Len(picked) < limit
                  THEN picked \o Truncate(remaining, limit - Len(picked))
                  ELSE picked
    IN  IF rows = <<>> THEN <<>> ELSE Truncate(filled, limit)

\* api.py:671-730  get_key_reviews: every exception, the 503 of
\* get_supabase included, becomes status 500.
get_key_reviews_result(req, storage_ok) ==
    IF ~supabase \/ ~storage_ok THEN Error(500)
    ELSE [status |-> 200,
          body   |-> PickReviews(review_rows, req.limit),
          total  |-> None]

MaxReviews == 4

Review(sentiment, text, dive) ==
    [id |-> 0, openai_sentiment |-> sentiment, review_text |-> text,
     openai_is_dive_positive |-> dive]

ReviewKinds ==
    {Review(9, "great", FALSE), Review(-8, "bad", TRUE),
     Review(5, "fine", TRUE), Review(None, "meh", FALSE),
     Review(9, " ", TRUE), Review(-9, "none", FALSE),
     Review(-5, "hm", FALSE)}

\* Tables of up to MaxReviews rows; the id is the row position.
ReviewTables ==
    UNION {{[i \in 1..n |-> [t[i] EXCEPT !.id = i]] :
                t \in [1..n -> ReviewKinds]} : n \in 0..MaxReviews}

\* api.py:672: limit = Query(3, ge=1, le=8)
ReviewRequests == [endpoint : {"get_key_reviews"}, limit : {1, 2, 3, 4, 8}]

ReviewsInit ==
    /\ supabase \in BOOLEAN
    /\ reachable \in BOOLEAN
    /\ review_rows \in ReviewTables
    /\ locations = <<>>
    /\ ties = <<>>
    /\ request = NoRequest
    /\ response = Error(None)
    /\ threads = <<>>
    /\ NormIdle
    /\ CalcIdle

\* GET /locations/{place_id}/reviews
GetKeyReviews(req, storage_ok) ==
    /\ request' = req
    /\ response' = get_key_reviews_result(req, storage_ok)
    /\ UNCHANGED <<supabase, locations, reachable, ties, threads, review_rows,
                   normVars, calcVars>>

ReviewsNext == \E req \in ReviewRequests : GetKeyReviews(req, reachable)

SpecReviews == ReviewsInit /\ [][ReviewsNext]_vars

----------------------------------------------------------------------------
(* Claims about the calculators (SpecCalc)                                 *)

\* The label the code pairs with each grade (api.py:380-397).
LabelOfGrade(g) ==
    CASE g = "A" -> "Certified Gem"
      [] g = "B" -> "Solid Spot"
      [] g = "C" -> "Decent"
      [] g = "D" -> "Avoid"

\* C3: dive_grade and gem_label are a step function of the stored
\* dive_score: A exactly when dive_score >= 85, B when 70 <= dive_score < 85,
\* C when 50 <= dive_score < 70, D otherwise, and gem_label is the label of
\* that grade.
C3_GradeStepOfStoredScore ==
    calc_call = "enrich_place" =>
        /\ calc_out.dive_grade =
              (IF calc_out.dive_score >= 850 THEN "A"
               ELSE IF calc_out.dive_score >= 700 THEN "B"
               ELSE IF calc_out.dive_score >= 500 THEN "C"
               ELSE "D")
        /\ calc_out.gem_label = LabelOfGrade(calc_out.dive_grade)

\* C8: blended_0_10 is the weighted mean of the numeric sub-scores with the
\* weights 0.40 / 0.35 / 0.25 renormalized over the ones that are numeric,
\* rounded to 1 decimal (the result is a tenth nearest to the exact mean);
\* with no numeric sub-score the result is None.
C8_BlendIsRenormalizedMean ==
    calc_call = "blended_0_10" =>
        LET q == calc_in.quality_0_10
            c == calc_in.character_0_10
            u == calc_in.underrated_0_10
            b == calc_out.blended_0_10
            wq == IF q # None THEN 40 ELSE 0
            wc == IF c # None THEN 35 ELSE 0
            wu == IF u # None THEN 25 ELSE 0
        IN  IF wq + wc + wu = 0 THEN b = None
            ELSE /\ b # None
                 /\ 2 * Abs((wq + wc + wu) * b - (wq * q + wc * c + wu * u))
                       <= wq + wc + wu

C8_Witness ==
    /\ calc_call = "blended_0_10"
    /\ calc_in.quality_0_10 = 95
    /\ calc_in.character_0_10 = 20
    /\ calc_in.underrated_0_10 = None
    /\ calc_out.blended_0_10 = 60

C8_WitnessNone ==
    /\ calc_call = "blended_0_10"
    /\ calc_in.quality_0_10 = None
    /\ calc_in.character_0_10 = None
    /\ calc_in.underrated_0_10 = None
    /\ calc_out.blended_0_10 = None

\* A place on which every aggregate signal, the legacy sentiment,
\* pct_dive_positive and both ML residuals are absent.
AllSignalsAbsent(place) ==
    /\ \A f \in Signals : place[f] = None
    /\ place.avg_openai_sentiment = None
    /\ place.pct_dive_positive = None
    /\ place.ml_metadata.residual = None
    /\ place.ml_metadata.residual_deep = None

\* C10: on a place whose primary and secondary signals are all absent,
\* quality_0_10, character_0_10 and underrated_0_10 each return the neutral
\* value 5.0.
C10_NeutralWhenAllAbsent ==
    calc_call = "enrich_place" /\ AllSignalsAbsent(calc_in) =>
        /\ calc_out.quality_0_10 = 50
        /\ calc_out.character_0_10 = 50
        /\ calc_out.underrated_0_10 = 50

----------------------------------------------------------------------------
(* Claims about the ranked-list pipeline (Spec)                            *)

Ranked == response.status = 200

LensFields == {"quality_0_10", "character_0_10", "underrated_0_10"}

\* The rows a request scores together, and the Underrated scale it uses.
Cohort(req) ==
    IF req.endpoint = "get_vibes"
    THEN Truncate(IF req.vibe_tag # "none"
                  THEN SelectSeq(locations,
                                 LAMBDA p : p.vibe_tag = req.vibe_tag)
                  ELSE locations, req.limit)
    ELSE FetchMinRating(locations, req.min_rating)

CohortScale(req) ==
    IF req.endpoint = "get_locations" THEN UnderratedScale(Cohort(req))
    ELSE ScaleDefault

\* The cohort of the last request after enrich_place and the three
\* normalizations, before any re-blend.
NormalizedCohort(ups) ==
    NormalizeLenses(EnrichAll(Cohort(request), CohortScale(request), ups))

\* C1: in every response of get_locations, get_vibes and
\* get_locations_custom, the three lens scores of each returned place are
\* the cohort-normalized ones and its blended_0_10 is blended_0_10() of
\* those normalized scores, not the blend enrich_place wrote from the raw
\* ones.
C1_BlendOfNormalized ==
    Ranked =>
        \E ups \in TieSides :
            LET cohort == NormalizedCohort(ups)
            IN  \A i \in DOMAIN response.body :
                    LET p == response.body[i]
                    IN  /\ \E k \in DOMAIN cohort :
                               /\ cohort[k].place_id = p.place_id
                               /\ \A f \in LensFields : p[f] = cohort[k][f]
                        /\ \E up \in BOOLEAN :
                               p.blended_0_10 = blended_0_10(p, up)

\* A returned place whose blend differs from the blend of its raw scores.
C1_Witness ==
    /\ Ranked
    /\ \E i \in DOMAIN response.body :
           LET p == response.body[i]
           IN  \A up \in BOOLEAN :
                   enrich_place(locations[p.place_id], CohortScale(request),
                                up).blended_0_10 # p.blended_0_10

\* C2: every returned place has quality_0_10, character_0_10,
\* underrated_0_10 and blended_0_10 in [0, 10] and dive_score in [0, 100].
C2_ScoresInRange ==
    Ranked =>
        \A i \in DOMAIN response.body :
            LET p == response.body[i]
            IN  /\ \A f \in LensFields \cup {"blended_0_10"} :
                       p[f] \in 0..100
                /\ p.dive_score \in 0..1000

\* A returned place whose dive_score was clamped from above 100, next to a
\* place that got the top of the normalized range.
C2_Witness ==
    /\ Ranked
    /\ \E i \in DOMAIN response.body :
           /\ TotalScoreNoClamp(response.body[i]) > 100000
           /\ response.body[i].dive_score = 1000
    /\ \E i \in DOMAIN response.body :
           response.body[i].quality_0_10 = TargetMaxDefault

Sparse(place) ==
    \/ OrZero(place.user_ratings_total) < 50
    \/ OrZero(place.review_count) < 15

\* C9: a place with user_ratings_total < 50 or review_count < 15
\* (user_ratings_total = 10 and review_count = 5 in particular) is never
\* returned with quality_0_10 or character_0_10 above 9.4.
C9_SparseNeverAbove94 ==
    Ranked =>
        \A i \in DOMAIN response.body :
            Sparse(response.body[i]) =>
                /\ response.body[i].quality_0_10 <= 94
                /\ response.body[i].character_0_10 <= 94

----------------------------------------------------------------------------
(* Claims about failures and client errors (Spec)                          *)

\* C11: with the storage configured and answering, get_locations completes
\* successfully whatever defect (missing or non-numeric value) one place of
\* the candidate set carries.
C11_DefectNeverAborts ==
    (request.endpoint = "get_locations" /\ supabase /\ reachable)
        => response.status = 200

\* The requests whose handler gets as far as asking for the storage client
\* (get_locations_custom validates the weights first).
ReachesStorage(req) ==
    /\ req.endpoint # "none"
    /\ req.endpoint = "get_locations_custom" =>
           /\ req.weights.kind = "object"
           /\ ValidWeights(req.weights.map) # {}

\* C12: when the storage client is not configured or the storage does not
\* answer, every endpoint that needs it responds with status 503 and no other
\* error kind.
C12_Unavailable503 ==
    (ReachesStorage(request) /\ (~supabase \/ ~reachable))
        => response.status = 503

\* C13: get_locations_custom answers 400 to every weights payload that is
\* not a signal -> weight mapping, and to every mapping without a valid
\* weight, whatever the state of the storage.
C13_MalformedIs400 ==
    (/\ request.endpoint = "get_locations_custom"
     /\ \/ request.weights.kind # "object"
        \/ ValidWeights(request.weights.map) = {})
        => response.status = 400

----------------------------------------------------------------------------
(* Claims about the custom lens, paging and filters (Spec)                 *)

CustomRanked == Ranked /\ request.endpoint = "get_locations_custom"

SignalSeq ==
    <<"food_drink_quality", "service_quality", "value_score", "divey_score",
      "classic_institution", "unpretentious", "authenticity",
      "would_recommend", "memorable">>

\* TRUE when signal sg counts for place p under the weights w: a known
\* signal with a numeric weight > 0 and a numeric value on the place.
Contributes(p, w, sg) ==
    /\ sg \in DOMAIN w
    /\ w[sg] # None
    /\ w[sg] > 0
    /\ p["avg_" \o sg] \notin {None, Bad}

\* Sum over the first k signals of weight (val = FALSE) or of
\* weight * value (val = TRUE) of the contributing ones.
RECURSIVE ContribSum(_, _, _, _)
ContribSum(p, w, k, val) ==
    IF k = 0 THEN 0
    ELSE ContribSum(p, w, k - 1, val)
         + (IF Contributes(p, w, SignalSeq[k])
            THEN w[SignalSeq[k]] * (IF val THEN p["avg_" \o SignalSeq[k]] ELSE 1)
            ELSE 0)

\* C14: custom_score of every place returned by get_locations_custom is
\* 10 times the weighted mean of the contributing signals, to the nearest
\* tenth, and 5.0 when no signal contributes.
C14_CustomScoreIsWeightedMean ==
    CustomRanked =>
        \A i \in DOMAIN response.body :
            LET p  == response.body[i]
                w  == request.weights.map
                tw == ContribSum(p, w, 9, FALSE)
                ws == ContribSum(p, w, 9, TRUE)
            IN  IF tw = 0 THEN p.custom_score = 50
                ELSE 2 * Abs(p.custom_score * tw - 10 * ws) <= tw

\* Weights {food_drink_quality: 1.0}: a place with food_drink_quality 0.8
\* gets 8.0, next to a place without the signal that gets 5.0.
C14_Witness ==
    /\ CustomRanked
    /\ DOMAIN request.weights.map = {"food_drink_quality"}
    /\ request.weights.map["food_drink_quality"] = 10
    /\ \E i \in DOMAIN response.body :
           /\ response.body[i].avg_food_drink_quality = 8
           /\ response.body[i].custom_score = 80
    /\ \E i \in DOMAIN response.body :
           /\ response.body[i].avg_food_drink_quality = None
           /\ response.body[i].custom_score = 50

LocationsRanked == Ranked /\ request.endpoint = "get_locations"

\* TRUE when place p passes the two in-memory filters of request req.
PassesFilters(p, req) ==
    LET known == {LowerStrip(req.kinds[i]) : i \in DOMAIN req.kinds}
                     \cap {"bar", "restaurant"}
        Keywords(k) ==
            IF k = "bar" THEN {"bar", "night_club"}
            ELSE {"restaurant", "cafe", "meal_takeaway", "meal_delivery"}
    IN  /\ OrZero(p.user_ratings_total) >= req.min_reviews
        /\ \/ known = {}
           \/ /\ req.kinds_mode = "all"
              /\ \A k \in known : p.types \cap Keywords(k) # {}
           \/ /\ req.kinds_mode = "any"
              /\ \E k \in known : p.types \cap Keywords(k) # {}

\* The place_ids of the candidate set of req that pass its filters.
PostFilterIds(req) ==
    {Cohort(req)[k].place_id :
        k \in {k \in DOMAIN Cohort(req) : PassesFilters(Cohort(req)[k], req)}}

BodyIds == {response.body[i].place_id : i \in DOMAIN response.body}

SortKey(p) == OrZero(p[request.sort_by])

\* C15: the page of get_locations is the first min(limit, total) places of
\* the post-filter set in descending order of the sort key (null as 0), and
\* the reported total is the size of the post-filter set.
C15_PageIsSortedPrefix ==
    LocationsRanked =>
        \E ups \in TieSides :
            LET scored == ScoreCohort(Cohort(request), CohortScale(request), ups)
                body   == response.body
            IN  /\ response.total = Cardinality(PostFilterIds(request))
                /\ Len(body) = Min2(request.limit, response.total)
                /\ \A i, j \in DOMAIN body :
                       i < j => /\ SortKey(body[i]) >= SortKey(body[j])
                                /\ body[i].place_id # body[j].place_id
                /\ \A i \in DOMAIN body :
                       /\ body[i].place_id \in PostFilterIds(request)
                       /\ \E k \in DOMAIN scored : scored[k] = body[i]
                /\ \A k \in DOMAIN scored :
                       (/\ scored[k].place_id \in PostFilterIds(request)
                        /\ scored[k].place_id \notin BodyIds)
                           => /\ body # <<>>
                              /\ SortKey(scored[k]) <= SortKey(body[Len(body)])

\* A page cut short by the limit, sorted on a key that is null on one of
\* the places of the post-filter set.
C15_Witness ==
    /\ LocationsRanked
    /\ request.limit < response.total
    /\ Len(response.body) = request.limit
    /\ SortKey(response.body[1]) > SortKey(response.body[Len(response.body)])
    /\ \E k \in DOMAIN Cohort(request) :
           /\ Cohort(request)[k].place_id \in PostFilterIds(request)
           /\ Cohort(request)[k][request.sort_by] = None

\* C16: the places get_locations returns are, up to the limit, exactly the
\* candidates that pass the minimum-review filter (null as 0) and the kind
\* filter in its 'any' or 'all' mode.
C16_FiltersKeepExactly ==
    LocationsRanked =>
        /\ BodyIds \subseteq PostFilterIds(request)
        /\ response.total = Cardinality(PostFilterIds(request))
        /\ request.limit >= response.total => BodyIds = PostFilterIds(request)

\* 'all' mode over two kinds with a minimum review count: a bar that is no
\* restaurant is dropped, a place with no review count is dropped, a place
\* of both kinds is kept.
C16_Witness ==
    /\ LocationsRanked
    /\ request.kinds_mode = "all"
    /\ Len(request.kinds) = 2
    /\ request.min_reviews > 0
    /\ BodyIds # {}
    /\ \E k \in DOMAIN Cohort(request) :
           /\ Cohort(request)[k].place_id \notin BodyIds
           /\ Cohort(request)[k].types = {"bar"}
           /\ OrZero(Cohort(request)[k].user_ratings_total) >= request.min_reviews
    /\ \E k \in DOMAIN Cohort(request) :
           /\ Cohort(request)[k].place_id \notin BodyIds
           /\ Cohort(request)[k].user_ratings_total = None

----------------------------------------------------------------------------
(* Claims about the ML residual (SpecCalc)                                 *)

Enriched == calc_call = "enrich_place"

BothResiduals(place) ==
    /\ place.ml_metadata.residual # None
    /\ place.ml_metadata.residual_deep # None

\* The place without its older residual field.
WithoutLegacyResidual(place) ==
    [place EXCEPT !.ml_metadata.residual = None]

\* C17: when a place carries both residual fields, residual_deep decides
\* every score that reads the residual: the Dive Score (ML bonus) and the
\* Underrated fallback come out as if the older `residual` were absent.
C17_NewestResidualWins ==
    (Enriched /\ BothResiduals(calc_in)) =>
        \E up \in BOOLEAN :
            LET ref == enrich_place(WithoutLegacyResidual(calc_in),
                                    calc_scale, up)
            IN  /\ calc_out.dive_score = ref.dive_score
                /\ calc_out.dive_grade = ref.dive_grade
                /\ calc_out.underrated_0_10 = ref.underrated_0_10

\* The Underrated fallback path: would-recommend or sentiment absent.
OnFallbackPath(place) ==
    \/ place.avg_would_recommend \in {None, Bad}
    \/ place.avg_openai_sentiment \in {None, Bad}

NoResidual(place) ==
    /\ place.ml_metadata.residual = None
    /\ place.ml_metadata.residual_deep = None

\* The residual is 0 under the field that is read.
ZeroResidual(place) ==
    \/ place.ml_metadata.residual_deep = 0
    \/ place.ml_metadata.residual_deep = None /\ place.ml_metadata.residual = 0

\* C18: on the fallback path a place without any residual scores 5.0, a
\* place whose residual is 0 scores 5.0 for every scale, and a scale below
\* the floor 0.10 gives the score of scale 0.10.
C18_FallbackNeutral ==
    (Enriched /\ OnFallbackPath(calc_in)) =>
        /\ NoResidual(calc_in) => calc_out.underrated_0_10 = 50
        /\ ZeroResidual(calc_in) => calc_out.underrated_0_10 = 50
        /\ calc_scale < ScaleFloor =>
               \E up \in BOOLEAN :
                   calc_out.underrated_0_10 =
                       underrated_0_10(calc_in, ScaleFloor, up)

\* A zero residual under a scale below the floor, and the same call on a
\* place that has a signal but no residual at all.
C18_Witness ==
    /\ Enriched
    /\ OnFallbackPath(calc_in)
    /\ calc_scale < ScaleFloor
    /\ calc_in.ml_metadata.residual_deep = 0
    /\ calc_in.ml_metadata.residual = -40
    /\ calc_in.avg_would_recommend = 10
    /\ calc_out.underrated_0_10 = 50

----------------------------------------------------------------------------
(* Claims about the auto-calibrated scale and the alias (Spec)             *)

\* The |residual| of the candidates that carry one, in list order.
CandidateResiduals(req) ==
    LET bearing == SelectSeq(Cohort(req), LAMBDA p : ~NoResidual(p))
    IN  [k \in DOMAIN bearing |->
            Abs(_safe_float(IF bearing[k].ml_metadata.residual_deep # None
                            THEN bearing[k].ml_metadata.residual_deep
                            ELSE bearing[k].ml_metadata.residual, 0))]

\* The scale C19 states, in quarters of a hundredth: the 75th percentile
\* with at least 10 residuals, else 0.20, and never below 0.10.
StatedScale(req) ==
    LET r == CandidateResiduals(req)
        s == IF Len(r) >= 10 THEN _percentile_sorted(SortedAsc(r), 75)
             ELSE 80
    IN  IF s < 40 THEN 40 ELSE s

\* C19: get_locations hands every place of the request the same Underrated
\* scale: the 75th percentile of the candidates' |residual| when at least 10
\* of them carry one, 0.20 otherwise, and at least 0.10 in both cases.
C19_CalibratedScale ==
    LocationsRanked =>
        /\ UnderratedScale(Cohort(request)) = StatedScale(request)
        /\ \E ups \in TieSides :
               LET scored == NormalizeLenses(
                                 EnrichAll(Cohort(request),
                                           StatedScale(request), ups))
               IN  \A i \in DOMAIN response.body :
                       \E k \in DOMAIN scored :
                           /\ scored[k].place_id = response.body[i].place_id
                           /\ scored[k].underrated_0_10 =
                                  response.body[i].underrated_0_10

\* Ten residuals whose 75th percentile is 0.35: the place on the preferred
\* path (raw 8.1) is ranked above the place with residual 0.20 (raw 7.6
\* under scale 0.35, 8.8 under the default 0.20).
C19_Witness ==
    /\ LocationsRanked
    /\ Len(CandidateResiduals(request)) >= 10
    /\ StatedScale(request) = ScaleDefault
    /\ \E i, j \in DOMAIN response.body :
           /\ response.body[i].avg_would_recommend = 10
           /\ response.body[j].ml_metadata.residual_deep = 20
           /\ response.body[i].underrated_0_10
                  > response.body[j].underrated_0_10

\* C20: in every place the pipeline returns, diveiness_0_10 equals
\* character_0_10.
C20_DiveinessIsCharacter ==
    Ranked =>
        \A i \in DOMAIN response.body :
            response.body[i].diveiness_0_10 = response.body[i].character_0_10

----------------------------------------------------------------------------
(* Claims about request scoping (Spec)                                     *)

ScoreFieldsOut ==
    {"quality_0_10", "character_0_10", "underrated_0_10", "blended_0_10"}

\* TRUE when the places the two responses have in common carry the same
\* four scores.
SameScores(resp1, resp2) ==
    \A i \in DOMAIN resp1.body, j \in DOMAIN resp2.body :
        resp1.body[i].place_id = resp2.body[j].place_id
            => \A f \in ScoreFieldsOut : resp1.body[i][f] = resp2.body[j][f]

\* C21: two successive get_locations requests over the same fetched set
\* (same min_rating) report the same scores for every place present in both
\* responses, whatever their min_reviews, kinds, kinds_mode, sort_by, limit.
C21_ScoresIgnorePostFilters ==
    [][(/\ request.endpoint = "get_locations"
        /\ request'.endpoint = "get_locations"
        /\ request.min_rating = request'.min_rating
        /\ response.status = 200
        /\ response'.status = 200)
           => SameScores(response, response')]_vars

\* A page of at most two places holding the middle value 5.8 of a cohort of
\* three: the score comes from the full candidate set, not from the page.
C21_Witness ==
    /\ LocationsRanked
    /\ Len(Cohort(request)) = 3
    /\ response.total < 3
    /\ \E i \in DOMAIN response.body : response.body[i].quality_0_10 = 58

\* C22: whatever the interleaving of the two threads, a finished request
\* carries the response the handler gives when it runs alone.
C22_NoInterference ==
    \A t \in DOMAIN threads :
        threads[t].pc = "done"
            => threads[t].resp =
                   get_locations_result(threads[t].req, reachable, ties)

\* Thread 1 has answered a request over one candidate set while thread 2
\* is in the middle of the pipeline on a different one.
C22_Witness ==
    /\ DOMAIN threads = Workers
    /\ threads[1].pc = "done"
    /\ threads[1].resp.status = 200
    /\ threads[2].pc = "normalized"
    /\ Len(threads[2].data) > Len(threads[1].resp.body)
    /\ threads[1].resp.body # <<>>
    /\ threads[1].req.min_rating # threads[2].req.min_rating

----------------------------------------------------------------------------
(* Claims about the key reviews (SpecReviews)                              *)

ReviewsAnswered ==
    request.endpoint = "get_key_reviews" /\ response.status = 200

\* The reviews of the place that have a text, in storage order.
TextRows == SelectSeq(review_rows, HasText)

DiveRows == {i \in DOMAIN TextRows : TextRows[i].openai_is_dive_positive}

\* The ids of the reviews chosen before the backfill: maximum sentiment,
\* minimum sentiment, dive-positive with maximum sentiment.
FirstPickIds ==
    IF TextRows = <<>> THEN {}
    ELSE {TextRows[MaxFirst(TextRows, DOMAIN TextRows)].id,
          TextRows[MinFirst(TextRows, DOMAIN TextRows)].id}
         \cup (IF DiveRows = {} THEN {}
               ELSE {TextRows[MaxFirst(TextRows, DiveRows)].id})

\* C23: get_key_reviews returns min(limit, number of reviews with text)
\* distinct reviews with text: the maximum-sentiment one first, then the
\* minimum-sentiment one, then the best dive-positive one (each skipped when
\* already picked), then the others by descending |sentiment|.
C23_KeyReviews ==
    ReviewsAnswered =>
        LET body == response.body
            n    == Len(body)
            k    == Cardinality(FirstPickIds)
        IN  /\ n = Min2(request.limit, Len(TextRows))
            /\ \A i \in DOMAIN body :
                   /\ HasText(body[i])
                   /\ \E j \in DOMAIN review_rows : review_rows[j] = body[i]
            /\ \A i, j \in DOMAIN body : i # j => body[i].id # body[j].id
            /\ n >= 1 =>
                   \A j \in DOMAIN TextRows : sent(TextRows[j]) <= sent(body[1])
            /\ (n >= 2 /\ \E j \in DOMAIN TextRows :
                              sent(TextRows[j]) < sent(body[1])) =>
                   \A j \in DOMAIN TextRows : sent(TextRows[j]) >= sent(body[2])
            /\ \A i \in 1..Min2(n, k) : body[i].id \in FirstPickIds
            /\ \A i \in (k + 1)..(n - 1) :
                   Abs(sent(body[i])) >= Abs(sent(body[i + 1]))
            /\ n > k =>
                   \A j \in DOMAIN TextRows :
                       TextRows[j].id \notin IdsOf(body)
                           => Abs(sent(TextRows[j])) <= Abs(sent(body[n]))

\* limit 3 on four reviews, one of them blank: the only dive-positive
\* review is also the most negative one, so the third place is backfilled.
C23_Witness ==
    /\ ReviewsAnswered
    /\ request.limit = 3
    /\ Len(review_rows) = 4
    /\ Len(TextRows) = 3
    /\ Len(response.body) = 3
    /\ Cardinality(FirstPickIds) = 2
    /\ response.body[2].openai_is_dive_positive
    /\ response.body[3].id \notin FirstPickIds

----------------------------------------------------------------------------
(* Claims about the custom lens and the default lens (Spec)                *)

\* C24: a get_locations request and a get_locations_custom request over the
\* same table with the same min_rating and min_reviews report the same
\* quality, character, underrated and blended scores for every place that
\* both responses return.
C24_CustomSameScoresAsDefault ==
    [][(/\ {request.endpoint, request'.endpoint}
               = {"get_locations", "get_locations_custom"}
        /\ request.min_rating = request'.min_rating
        /\ request.min_reviews = request'.min_reviews
        /\ response.status = 200
        /\ response'.status = 200)
           => SameScores(response, response')]_vars

----------------------------------------------------------------------------
(* Claims about the Dive-Score classifier (SpecCalc)                       *)

\* The value the classifier compares: a missing count or rating is 0.
C25_Number(v) == IF v = None THEN 0 ELSE v

\* The residual the classifier reads, in hundredths (0 when none is stored).
C25_Residual(place) ==
    IF place.ml_metadata.residual # None THEN place.ml_metadata.residual
    ELSE IF place.ml_metadata.residual_deep # None
         THEN place.ml_metadata.residual_deep
    ELSE 0

\* The stated tables, in points.
C25_ReviewPoints(n) ==
    CASE n < 20                -> 10
      [] n \in 20..600         -> 30
      [] n \in 601..2000       -> 20
      [] n > 2000              -> 10

C25_PricePoints(tier) ==
    CASE tier = 1 -> 30
      [] tier = 2 -> 20
      [] tier = 3 -> 5
      [] tier = 4 -> 0
      [] OTHER    -> 15

C25_BonusPoints(r) ==
    CASE r > 30               -> 10
      [] r > 10 /\ r <= 30    -> 5
      [] r < -30              -> -5
      [] OTHER                -> 0

\* Rating contribution in thousandths of a point (rating in thousandths):
\* 10 below 3.5 (a missing rating included), then linear, at most 40.
C25_RatingPoints(rating) ==
    IF rating < 3500 THEN 10000
    ELSE IF rating < 4000 THEN 20000 + 20 * (rating - 3500)
    ELSE Min2(40000, 30000 + 10 * (rating - 4000))

C25_Classified(place) ==
    /\ place.rating \in {None} \cup (0..5000)
    /\ place.user_ratings_total \in {None} \cup (0..100000)

C25_WitnessClamp ==
    /\ calc_call = "enrich_place"
    /\ calc_in.rating = 5000
    /\ calc_in.user_ratings_total = 20
    /\ calc_in.price_level = 1
    /\ calc_in.ml_metadata.residual = 40
    /\ calc_out.dive_score = 1000

----------------------------------------------------------------------------
(* Claims about the sparse-data guardrail (SpecCalc)                       *)

\* A count as the guardrail reads it: missing or non-numeric is 0.
C26_Count(v) == IF v \in {None, Bad} THEN 0 ELSE v

\* The largest value a calculator may return for the place, in tenths.
C26_Cap(place) ==
    LET gr == C26_Count(place.user_ratings_total)
        rc == C26_Count(place.review_count)
    IN  IF gr < 50 \/ rc < 15 THEN 94
        ELSE IF gr < 100 \/ rc < 25 THEN 98
        ELSE 100

\* C26: the values returned by quality_0_10 and character_0_10 are at most
\* 9.4 when user_ratings_total < 50 or review_count < 15, at most 9.8 when
\* user_ratings_total < 100 or review_count < 25, and at most 10 otherwise,
\* with or without a vibe nudge.
C26_CapsHold ==
    calc_call = "enrich_place" =>
        /\ calc_out.quality_0_10 <= C26_Cap(calc_in)
        /\ calc_out.character_0_10 <= C26_Cap(calc_in)
        /\ calc_out.diveiness_0_10 <= C26_Cap(calc_in)

\* A Beloved_Dive with every character signal at 1.0 and 120 ratings but
\* only 5 reviews: base 10.0 + 0.3 is brought down to 9.4 by the review
\* count alone.
C26_Witness ==
    /\ calc_call = "enrich_place"
    /\ calc_in.vibe_tag = "Beloved_Dive"
    /\ calc_in.avg_authenticity = 10
    /\ calc_in.avg_classic_institution = 10
    /\ calc_in.avg_unpretentious = 10
    /\ calc_in.avg_divey_score = 10
    /\ calc_in.avg_memorable = 10
    /\ calc_in.user_ratings_total = 120
    /\ calc_in.review_count = 5
    /\ calc_out.character_0_10 = 94

\* The looser cap: 60 ratings and 20 reviews, quality base 10.0 returned
\* as 9.8.
C26_WitnessLoose ==
    /\ calc_call = "enrich_place"
    /\ calc_in.user_ratings_total = 60
    /\ calc_in.review_count = 20
    /\ calc_in.avg_food_drink_quality = 10
    /\ calc_in.avg_would_recommend = 10
    /\ calc_out.quality_0_10 = 98

\* With enough data the nudge cannot lift the score above 10.
C26_WitnessTen ==
    /\ calc_call = "enrich_place"
    /\ calc_in.vibe_tag # "none"
    /\ calc_in.user_ratings_total = 120
    /\ calc_in.review_count = 30
    /\ CharacterBase(calc_in) + VibeNudge(calc_in) > 10000
    /\ calc_out.character_0_10 = 100

----------------------------------------------------------------------------
(* Claims about weight validation in the custom lens (Spec)                *)

CustomObject ==
    /\ request.endpoint = "get_locations_custom"
    /\ request.weights.kind = "object"

\* The known signals of the weight map whose weight is a number.
C29_NumericKnown ==
    {sg \in DOMAIN request.weights.map :
        /\ \E k \in DOMAIN SignalSeq : SignalSeq[k] = sg
        /\ request.weights.map[sg] # None}

\* C29: a weight map is answered with 400 exactly when it holds no known
\* signal with a numeric weight; a map whose numeric weights are all <= 0
\* is scored like any other and every returned place gets custom_score 5.0.
C29_NonPositiveWeightsAccepted ==
    CustomObject =>
        /\ response.status = 400 <=> C29_NumericKnown = {}
        /\ (/\ response.status = 200
            /\ C29_NumericKnown # {}
            /\ \A sg \in C29_NumericKnown : request.weights.map[sg] <= 0)
               => \A i \in DOMAIN response.body :
                      /\ response.body[i].custom_score = 50
                      /\ response.body[i].quality_0_10 # None
                      /\ response.body[i].dive_grade # "none"

\* Weights {divey_score: -1.0}: status 200, at least two places, one of
\* them with a divey_score value, all with custom_score 5.0.
C29_Witness ==
    /\ CustomObject
    /\ response.status = 200
    /\ DOMAIN request.weights.map = {"divey_score"}
    /\ request.weights.map["divey_score"] < 0
    /\ Len(response.body) >= 2
    /\ \E i \in DOMAIN response.body :
           response.body[i].avg_divey_score \notin {None, Bad}
    /\ \A i \in DOMAIN response.body : response.body[i].custom_score = 50

----------------------------------------------------------------------------
(* Claims about unknown kinds (Spec)                                       *)

\* The requested kinds the mapping knows, in lower case.
C30_Known(req) ==
    {LowerStrip(req.kinds[i]) : i \in DOMAIN req.kinds}
        \cap {"bar", "restaurant"}

C30_SameButKinds(req1, req2) ==
    /\ req1.endpoint = "get_locations"
    /\ req2.endpoint = "get_locations"
    /\ req1.min_rating = req2.min_rating
    /\ req1.min_reviews = req2.min_reviews
    /\ req1.sort_by = req2.sort_by
    /\ req1.limit = req2.limit

\* C30: two successive get_locations requests that differ in their kinds
\* only get the same response when the kinds they name among "bar" and
\* "restaurant" are the same (in the same mode, or in any mode when they
\* name none): unknown kinds do not count, and a request naming unknown
\* kinds only is answered like a request without kinds.
C30_UnknownKindsDropped ==
    [][(/\ C30_SameButKinds(request, request')
        /\ C30_Known(request) = C30_Known(request')
        /\ \/ C30_Known(request) = {}
           \/ request.kinds_mode = request'.kinds_mode)
           => response' = response]_vars

\* kinds = ["spa"] in 'all' mode: every candidate is returned, places that
\* are no bar and no restaurant included.
C30_Witness ==
    /\ LocationsRanked
    /\ request.kinds = <<"spa">>
    /\ request.kinds_mode = "all"
    /\ response.total = Len(Cohort(request))
    /\ Len(response.body) >= 2
    /\ \E i \in DOMAIN response.body :
           response.body[i].types \cap {"bar", "restaurant"} = {}

----------------------------------------------------------------------------
(* Claims about the normalizer (SpecNorm)                                  *)

\* C4: normalize_to_percentile is rank-preserving: of two places of the
\* list whose raw values of the field differ, the one with the smaller raw
\* value never ends with the larger normalized value.
C4_RankPreserving ==
    \A f \in normed : \A i, j \in NumericIdx(before, f) :
        before[i][f] < before[j][f] => after[i][f] <= after[j][f]

C4_Witness ==
    /\ "quality_0_10" \in normed
    /\ \E i, j \in NumericIdx(before, "quality_0_10") :
          /\ before[i]["quality_0_10"] < before[j]["quality_0_10"]
          /\ after[i]["quality_0_10"] < after[j]["quality_0_10"]
          /\ after[i]["quality_0_10"] # before[i]["quality_0_10"]

\* C5 as stated: for any cohort size, two places with different raw values
\* always receive different normalized values, ordered like the raw ones.
C5_StrictAnySize ==
    \A f \in normed : \A i, j \in NumericIdx(before, f) :
        before[i][f] < before[j][f] => after[i][f] < after[j][f]

\* C5 amended: the order is never reversed, and the normalized values of
\* two different raw values are different whenever the list holds at most
\* 10*(target_max - target_min) + 1 numeric values of the field (76 with the
\* default targets, the number of one-decimal values from 2.0 to 9.5).
C5_StrictUpToRange ==
    \A f \in normed : \A i, j \in NumericIdx(before, f) :
        before[i][f] < before[j][f] =>
            /\ after[i][f] <= after[j][f]
            /\ Cardinality(NumericIdx(before, f)) <= target[2] - target[1] + 1
                   => after[i][f] < after[j][f]

C5_Witness ==
    /\ "quality_0_10" \in normed
    /\ target = <<TargetMinDefault, TargetMaxDefault>>
    /\ Cardinality(NumericIdx(before, "quality_0_10")) = 76
    /\ \A i, j \in DOMAIN after :
          i # j => after[i]["quality_0_10"] # after[j]["quality_0_10"]

\* C6: with fewer than 2 numeric values of the field the call leaves every
\* place unchanged; with at least 2 the largest normalized value is
\* target_max and the smallest is target_min.
C6_NoOpOrFullRange ==
    \A f \in normed :
        LET idx == NumericIdx(before, f)
        IN  IF Cardinality(idx) < 2
            THEN /\ Column(after, f) = Column(before, f)
                 /\ normed = {f} => after = before
            ELSE /\ \E i \in idx : after[i][f] = target[2]
                 /\ \E i \in idx : after[i][f] = target[1]
                 /\ \A i \in idx : /\ after[i][f] <= target[2]
                                    /\ after[i][f] >= target[1]

C6_Witness ==
    /\ normed = {"character_0_10"}
    /\ Cardinality(NumericIdx(before, "character_0_10")) = 1
    /\ Len(before) = 3
    /\ after = before

C6_WitnessRange ==
    /\ "quality_0_10" \in normed
    /\ Cardinality(NumericIdx(before, "quality_0_10")) = 3
    /\ target = <<TargetMinDefault, TargetMaxDefault>>
    /\ \E i \in DOMAIN after : after[i]["quality_0_10"] = 95
    /\ \E i \in DOMAIN after : after[i]["quality_0_10"] = 20

\* C7 as stated: raw quality scores [5.0, 7.0, 9.0] are normalized to exactly
\* [2.0, 5.75, 9.5] (values compared in hundredths).
C7_Exactly575 ==
    /\ "quality_0_10" \in normed
    /\ target = <<TargetMinDefault, TargetMaxDefault>>
    /\ Column(before, "quality_0_10") = <<50, 70, 90>>
    => [i \in 1..3 |-> 10 * after[i]["quality_0_10"]] = <<200, 575, 950>>

\* C7 amended: raw quality scores [5.0, 7.0, 9.0] are normalized to
\* [2.0, 5.8, 9.5]: percentiles 0, 0.5, 1 mapped linearly into [2.0, 9.5]
\* and rounded to one decimal (5.75 becomes 5.8).
C7_RoundedTo58 ==
    /\ "quality_0_10" \in normed
    /\ target = <<TargetMinDefault, TargetMaxDefault>>
    /\ Column(before, "quality_0_10") = <<50, 70, 90>>
    => Column(after, "quality_0_10") = <<20, 58, 95>>

C7_Witness ==
    /\ "quality_0_10" \in normed
    /\ target = <<TargetMinDefault, TargetMaxDefault>>
    /\ Column(before, "quality_0_10") = <<50, 70, 90>>
    /\ Column(after, "quality_0_10") = <<20, 58, 95>>

\* Sorted position (from 0) of place i among the numeric values of field f:
\* the places with a smaller raw value, then the equal ones listed earlier.
C27_Rank(f, i) ==
    Cardinality({j \in NumericIdx(before, f) : before[j][f] < before[i][f]})
    + Cardinality({j \in NumericIdx(before, f) :
                       j < i /\ before[j][f] = before[i][f]})

\* C27: among n >= 2 numeric values the place at sorted position rank gets
\* target_min + rank/(n-1) * (target_max - target_min) rounded to 1 decimal,
\* places with equal raw values being ranked in list order: the one listed
\* earlier never receives the larger value, and receives a smaller one when
\* consecutive ranks are at least 0.1 apart.
C27_StableRanks ==
    \A f \in normed :
        LET idx == NumericIdx(before, f)
            n   == Cardinality(idx)
        IN  n >= 2 =>
              /\ \A i \in idx :
                    2 * Abs((n - 1) * after[i][f]
                            - ((n - 1) * target[1]
                               + C27_Rank(f, i) * (target[2] - target[1])))
                        <= n - 1
              /\ \A i, j \in idx :
                    (i < j /\ before[i][f] = before[j][f]) =>
                        /\ after[i][f] <= after[j][f]
                        /\ n - 1 <= target[2] - target[1]
                               => after[i][f] < after[j][f]

\* Three places with the same raw underrated value 6.0 come out as
\* 2.0, 5.8, 9.5 in list order.
C27_Witness ==
    /\ "underrated_0_10" \in normed
    /\ target = <<TargetMinDefault, TargetMaxDefault>>
    /\ Column(before, "underrated_0_10") = <<60, 60, 60>>
    /\ Column(after, "underrated_0_10") = <<20, 58, 95>>

\* C28: a call changes nothing but the named field of the places where it
\* is numeric: the list keeps its length, a field not yet normalized keeps
\* every value, a missing value stays missing, and the column of a
\* normalized field depends on the column before only, so the order
\* in which the three fields are normalized does not matter.
C28_FrameAndOrder ==
    /\ Len(after) = Len(before)
    /\ \A f \in ScoreFields \ normed : Column(after, f) = Column(before, f)
    /\ \A f \in normed :
          /\ \A i \in DOMAIN before :
                before[i][f] = None => after[i][f] = None
          /\ Column(after, f) =
                Column(normalize_to_percentile(before, f, target[1], target[2]),
                       f)
    /\ normed = ScoreFields =>
          \A f1, f2, f3 \in ScoreFields :
              {f1, f2, f3} = ScoreFields =>
                  after = normalize_to_percentile(
                              normalize_to_percentile(
                                  normalize_to_percentile(
                                      before, f1, target[1], target[2]),
                                  f2, target[1], target[2]),
                              f3, target[1], target[2])

\* All three fields normalized on a list of three where one place has no
\* quality value: it still has none, the other two were rescaled.
C28_Witness ==
    /\ normed = ScoreFields
    /\ Len(before) = 3
    /\ Cardinality(NumericIdx(before, "quality_0_10")) = 2
    /\ \E i \in DOMAIN after :
          /\ before[i]["quality_0_10"] = None
          /\ after[i]["quality_0_10"] = None
          /\ after[i]["underrated_0_10"] # before[i]["underrated_0_10"]
    /\ \E i \in DOMAIN after :
          after[i]["quality_0_10"] \notin {None, before[i]["quality_0_10"]}

====
